---- MODULE Spec2Model ----
(***************************************************************************)
(* Lebedev-Laikov angular quadrature (src/NumQuad/lebedev/lebedev-laikov.c) *)
(*                                                                         *)
(* gen_oh expands one generator (code, a, b, v) into its orbit of points,  *)
(* the table functions ld0006 .. ld5810 replay their generators through    *)
(* gen_oh at a running offset n, and leb_order_routing selects the table   *)
(* function of a requested order.                                          *)
(*                                                                         *)
(* Numbers.  The doubles of the program are modelled in exact arithmetic.  *)
(*  - A coordinate (a, b, c, x[i], y[i], z[i]) is the integer q that       *)
(*    stands for the real number sgn(q) * sqrt(|q| / One): its sign and    *)
(*    its square, in units of 1/One.  The only operations the program      *)
(*    applies to coordinates are exactly representable: -a is Neg, a * a   *)
(*    is Sq (a plain number of units 1/One), and sqrt of a plain number r  *)
(*    is the coordinate whose square is r, or NaN when r < 0.              *)
(*  - A weight v is the exact decimal of its literal, as three limbs       *)
(*    <<h, m, l>> = h * 10^-7 + m * 10^-14 + l * 10^-21 with m and l in    *)
(*    0 .. 10^7 - 1 (h carries the sign).                                  *)
(* Rounding of the floating-point unit is outside this model.              *)
(***************************************************************************)
EXTENDS Integers, Sequences, FiniteSets, TLC

\* ------------------------------------------------------------------ bounds
MaxA       == 7   \* inputs a, b of a direct gen_oh call: squares i/6, i <= MaxA
MaxV       == 1   \* weights of a direct gen_oh call: -MaxV .. MaxV units
MaxOff     == 1   \* write offsets of a direct gen_oh call
MaxGarbage == 1   \* initial contents of the caller's buffers
MaxProbe   == 30  \* orders 0 .. MaxProbe are requested besides the supported ones and a negative one
Room       == 49  \* entries of the buffers of a direct gen_oh call from its offset on
MaxAgain   == 1   \* inputs a = b of a caller that calls twice: squares i/6, i <= MaxAgain
MaxOrderAgain == 14  \* the largest order requested by a caller that calls twice
MaxOrderCorrupt == 38  \* the largest order whose table gets a corrupted class code
MaxOrderPair == 26  \* the largest order requested by two concurrent threads

\* ------------------------------------------------------------- arithmetic
One  == 3 * 10^8          \* the double 1.0
NaN  == 6 * One + 1       \* the result of sqrt of a negative number
Keep == 0 - 1             \* a table row that does not assign a (or b)
NoTable == 0 - 1          \* no table function

Neg(q)  == IF q = NaN THEN NaN ELSE 0 - q
Sq(q)   == IF q = NaN THEN NaN ELSE IF q < 0 THEN 0 - q ELSE q
Sqrt(r) == IF r = NaN \/ r < 0 THEN NaN ELSE r

\* mutant: a = 1.0 is missing, the input a is used
gen_oh_code1_input(a0, b, v) ==
  LET a == a0 IN
  <<
    <<0, a, 0, 0, v>>, <<1, Neg(a), 0, 0, v>>,
    <<2, 0, a, 0, v>>, <<3, 0, Neg(a), 0, v>>,
    <<4, 0, 0, a, v>>, <<5, 0, 0, Neg(a), v>>
  >>

\* code == 1: "a = 1.0", then 6 points, num = 6 (lines 90-116)
gen_oh_code1(a0, b, v) ==
  LET a == One IN
  <<
    <<0, a, 0, 0, v>>, <<1, Neg(a), 0, 0, v>>,
    <<2, 0, a, 0, v>>, <<3, 0, Neg(a), 0, v>>,
    <<4, 0, 0, a, v>>, <<5, 0, 0, Neg(a), v>>
  >>

num_code1 == 6

\* mutant: the last point of class 2 assigned to index 10 again
gen_oh_code2_index(a0, b, v) ==
  LET a == Sqrt(One \div 2) IN
  <<
    <<0, 0, a, a, v>>, <<1, 0, Neg(a), a, v>>,
    <<2, 0, a, Neg(a), v>>, <<3, 0, Neg(a), Neg(a), v>>,
    <<4, a, 0, a, v>>, <<5, Neg(a), 0, a, v>>,
    <<6, a, 0, Neg(a), v>>, <<7, Neg(a), 0, Neg(a), v>>,
    <<8, a, a, 0, v>>, <<9, Neg(a), a, 0, v>>,
    <<10, a, Neg(a), 0, v>>, <<10, Neg(a), Neg(a), 0, v>>
  >>

\* code == 2: "a = sqrt(0.5)", then 12 points, num = 12 (lines 117-167)
gen_oh_code2(a0, b, v) ==
  LET a == Sqrt(One \div 2) IN
  <<
    <<0, 0, a, a, v>>, <<1, 0, Neg(a), a, v>>,
    <<2, 0, a, Neg(a), v>>, <<3, 0, Neg(a), Neg(a), v>>,
    <<4, a, 0, a, v>>, <<5, Neg(a), 0, a, v>>,
    <<6, a, 0, Neg(a), v>>, <<7, Neg(a), 0, Neg(a), v>>,
    <<8, a, a, 0, v>>, <<9, Neg(a), a, 0, v>>,
    <<10, a, Neg(a), 0, v>>, <<11, Neg(a), Neg(a), 0, v>>
  >>

num_code2 == 12

\* mutant: w[7] is not the weight it was given
gen_oh_code3_weight(a0, b, v) ==
  LET a == Sqrt(One \div 3) IN
  <<
    <<0, a, a, a, v>>, <<1, Neg(a), a, a, v>>,
    <<2, a, Neg(a), a, v>>, <<3, Neg(a), Neg(a), a, v>>,
    <<4, a, a, Neg(a), v>>, <<5, Neg(a), a, Neg(a), v>>,
    <<6, a, Neg(a), Neg(a), v>>, <<7, Neg(a), Neg(a), Neg(a), <<0 - v[1], v[2], v[3]>>>>
  >>

\* mutant: z[5] = a instead of -a
gen_oh_code3_sign(a0, b, v) ==
  LET a == Sqrt(One \div 3) IN
  <<
    <<0, a, a, a, v>>, <<1, Neg(a), a, a, v>>,
    <<2, a, Neg(a), a, v>>, <<3, Neg(a), Neg(a), a, v>>,
    <<4, a, a, Neg(a), v>>, <<5, Neg(a), a, a, v>>,
    <<6, a, Neg(a), Neg(a), v>>, <<7, Neg(a), Neg(a), Neg(a), v>>
  >>

\* code == 3: "a = sqrt(1.0 / 3.0)", then 8 points, num = 8 (lines 168-202)
gen_oh_code3(a0, b, v) ==
  LET a == Sqrt(One \div 3) IN
  <<
    <<0, a, a, a, v>>, <<1, Neg(a), a, a, v>>,
    <<2, a, Neg(a), a, v>>, <<3, Neg(a), Neg(a), a, v>>,
    <<4, a, a, Neg(a), v>>, <<5, Neg(a), a, Neg(a), v>>,
    <<6, a, Neg(a), Neg(a), v>>, <<7, Neg(a), Neg(a), Neg(a), v>>
  >>

num_code3 == 8

\* mutant: z[23] = a instead of -a (the point of x[19] twice)
gen_oh_code4_sign(a, b0, v) ==
  LET b == Sqrt(One - 2 * Sq(a)) IN
  <<
    <<0, a, a, b, v>>, <<1, Neg(a), a, b, v>>,
    <<2, a, Neg(a), b, v>>, <<3, Neg(a), Neg(a), b, v>>,
    <<4, a, a, Neg(b), v>>, <<5, Neg(a), a, Neg(b), v>>,
    <<6, a, Neg(a), Neg(b), v>>, <<7, Neg(a), Neg(a), Neg(b), v>>,
    <<8, a, b, a, v>>, <<9, Neg(a), b, a, v>>,
    <<10, a, Neg(b), a, v>>, <<11, Neg(a), Neg(b), a, v>>,
    <<12, a, b, Neg(a), v>>, <<13, Neg(a), b, Neg(a), v>>,
    <<14, a, Neg(b), Neg(a), v>>, <<15, Neg(a), Neg(b), Neg(a), v>>,
    <<16, b, a, a, v>>, <<17, Neg(b), a, a, v>>,
    <<18, b, Neg(a), a, v>>, <<19, Neg(b), Neg(a), a, v>>,
    <<20, b, a, Neg(a), v>>, <<21, Neg(b), a, Neg(a), v>>,
    <<22, b, Neg(a), Neg(a), v>>, <<23, Neg(b), Neg(a), a, v>>
  >>

\* code == 4: "b = sqrt(1.0 - 2.0 * a * a)", then 24 points, num = 24 (lines 203-301)
gen_oh_code4(a, b0, v) ==
  LET b == Sqrt(One - 2 * Sq(a)) IN
  <<
    <<0, a, a, b, v>>, <<1, Neg(a), a, b, v>>,
    <<2, a, Neg(a), b, v>>, <<3, Neg(a), Neg(a), b, v>>,
    <<4, a, a, Neg(b), v>>, <<5, Neg(a), a, Neg(b), v>>,
    <<6, a, Neg(a), Neg(b), v>>, <<7, Neg(a), Neg(a), Neg(b), v>>,
    <<8, a, b, a, v>>, <<9, Neg(a), b, a, v>>,
    <<10, a, Neg(b), a, v>>, <<11, Neg(a), Neg(b), a, v>>,
    <<12, a, b, Neg(a), v>>, <<13, Neg(a), b, Neg(a), v>>,
    <<14, a, Neg(b), Neg(a), v>>, <<15, Neg(a), Neg(b), Neg(a), v>>,
    <<16, b, a, a, v>>, <<17, Neg(b), a, a, v>>,
    <<18, b, Neg(a), a, v>>, <<19, Neg(b), Neg(a), a, v>>,
    <<20, b, a, Neg(a), v>>, <<21, Neg(b), a, Neg(a), v>>,
    <<22, b, Neg(a), Neg(a), v>>, <<23, Neg(b), Neg(a), Neg(a), v>>
  >>

\* mutant: the count of class 2 copied into the branch of class 4
num_code4_copied == num_code2

num_code4 == 24

\* mutant: the radicand of class 4 copied into the branch of class 5
gen_oh_code5_radicand(a, b0, v) ==
  LET b == Sqrt(One - 2 * Sq(a)) IN
  <<
    <<0, a, b, 0, v>>, <<1, Neg(a), b, 0, v>>,
    <<2, a, Neg(b), 0, v>>, <<3, Neg(a), Neg(b), 0, v>>,
    <<4, b, a, 0, v>>, <<5, Neg(b), a, 0, v>>,
    <<6, b, Neg(a), 0, v>>, <<7, Neg(b), Neg(a), 0, v>>,
    <<8, a, 0, b, v>>, <<9, Neg(a), 0, b, v>>,
    <<10, a, 0, Neg(b), v>>, <<11, Neg(a), 0, Neg(b), v>>,
    <<12, b, 0, a, v>>, <<13, Neg(b), 0, a, v>>,
    <<14, b, 0, Neg(a), v>>, <<15, Neg(b), 0, Neg(a), v>>,
    <<16, 0, a, b, v>>, <<17, 0, Neg(a), b, v>>,
    <<18, 0, a, Neg(b), v>>, <<19, 0, Neg(a), Neg(b), v>>,
    <<20, 0, b, a, v>>, <<21, 0, Neg(b), a, v>>,
    <<22, 0, b, Neg(a), v>>, <<23, 0, Neg(b), Neg(a), v>>
  >>

\* mutant: b = sqrt(1 - a*a) is missing, the input b is used
gen_oh_code5_input(a, b0, v) ==
  LET b == b0 IN
  <<
    <<0, a, b, 0, v>>, <<1, Neg(a), b, 0, v>>,
    <<2, a, Neg(b), 0, v>>, <<3, Neg(a), Neg(b), 0, v>>,
    <<4, b, a, 0, v>>, <<5, Neg(b), a, 0, v>>,
    <<6, b, Neg(a), 0, v>>, <<7, Neg(b), Neg(a), 0, v>>,
    <<8, a, 0, b, v>>, <<9, Neg(a), 0, b, v>>,
    <<10, a, 0, Neg(b), v>>, <<11, Neg(a), 0, Neg(b), v>>,
    <<12, b, 0, a, v>>, <<13, Neg(b), 0, a, v>>,
    <<14, b, 0, Neg(a), v>>, <<15, Neg(b), 0, Neg(a), v>>,
    <<16, 0, a, b, v>>, <<17, 0, Neg(a), b, v>>,
    <<18, 0, a, Neg(b), v>>, <<19, 0, Neg(a), Neg(b), v>>,
    <<20, 0, b, a, v>>, <<21, 0, Neg(b), a, v>>,
    <<22, 0, b, Neg(a), v>>, <<23, 0, Neg(b), Neg(a), v>>
  >>

\* code == 5: "b = sqrt(1.0 - a * a)", then 24 points, num = 24 (lines 302-400)
gen_oh_code5(a, b0, v) ==
  LET b == Sqrt(One - Sq(a)) IN
  <<
    <<0, a, b, 0, v>>, <<1, Neg(a), b, 0, v>>,
    <<2, a, Neg(b), 0, v>>, <<3, Neg(a), Neg(b), 0, v>>,
    <<4, b, a, 0, v>>, <<5, Neg(b), a, 0, v>>,
    <<6, b, Neg(a), 0, v>>, <<7, Neg(b), Neg(a), 0, v>>,
    <<8, a, 0, b, v>>, <<9, Neg(a), 0, b, v>>,
    <<10, a, 0, Neg(b), v>>, <<11, Neg(a), 0, Neg(b), v>>,
    <<12, b, 0, a, v>>, <<13, Neg(b), 0, a, v>>,
    <<14, b, 0, Neg(a), v>>, <<15, Neg(b), 0, Neg(a), v>>,
    <<16, 0, a, b, v>>, <<17, 0, Neg(a), b, v>>,
    <<18, 0, a, Neg(b), v>>, <<19, 0, Neg(a), Neg(b), v>>,
    <<20, 0, b, a, v>>, <<21, 0, Neg(b), a, v>>,
    <<22, 0, b, Neg(a), v>>, <<23, 0, Neg(b), Neg(a), v>>
  >>

num_code5 == 24

\* mutant: the point of index 3 written again at index 7
gen_oh_code6_repeat(a, b, v) ==
  LET c == Sqrt(One - Sq(a) - Sq(b)) IN
  <<
    <<0, a, b, c, v>>, <<1, Neg(a), b, c, v>>,
    <<2, a, Neg(b), c, v>>, <<3, Neg(a), Neg(b), c, v>>,
    <<4, a, b, Neg(c), v>>, <<5, Neg(a), b, Neg(c), v>>,
    <<6, a, Neg(b), Neg(c), v>>, <<7, Neg(a), Neg(b), c, v>>,
    <<8, a, c, b, v>>, <<9, Neg(a), c, b, v>>,
    <<10, a, Neg(c), b, v>>, <<11, Neg(a), Neg(c), b, v>>,
    <<12, a, c, Neg(b), v>>, <<13, Neg(a), c, Neg(b), v>>,
    <<14, a, Neg(c), Neg(b), v>>, <<15, Neg(a), Neg(c), Neg(b), v>>,
    <<16, b, a, c, v>>, <<17, Neg(b), a, c, v>>,
    <<18, b, Neg(a), c, v>>, <<19, Neg(b), Neg(a), c, v>>,
    <<20, b, a, Neg(c), v>>, <<21, Neg(b), a, Neg(c), v>>,
    <<22, b, Neg(a), Neg(c), v>>, <<23, Neg(b), Neg(a), Neg(c), v>>,
    <<24, b, c, a, v>>, <<25, Neg(b), c, a, v>>,
    <<26, b, Neg(c), a, v>>, <<27, Neg(b), Neg(c), a, v>>,
    <<28, b, c, Neg(a), v>>, <<29, Neg(b), c, Neg(a), v>>,
    <<30, b, Neg(c), Neg(a), v>>, <<31, Neg(b), Neg(c), Neg(a), v>>,
    <<32, c, a, b, v>>, <<33, Neg(c), a, b, v>>,
    <<34, c, Neg(a), b, v>>, <<35, Neg(c), Neg(a), b, v>>,
    <<36, c, a, Neg(b), v>>, <<37, Neg(c), a, Neg(b), v>>,
    <<38, c, Neg(a), Neg(b), v>>, <<39, Neg(c), Neg(a), Neg(b), v>>,
    <<40, c, b, a, v>>, <<41, Neg(c), b, a, v>>,
    <<42, c, Neg(b), a, v>>, <<43, Neg(c), Neg(b), a, v>>,
    <<44, c, b, Neg(a), v>>, <<45, Neg(c), b, Neg(a), v>>,
    <<46, c, Neg(b), Neg(a), v>>, <<47, Neg(c), Neg(b), Neg(a), v>>
  >>

\* code == 6: "c = sqrt(1.0 - a * a - b * b)", then 48 points, num = 48 (lines 401-595)
gen_oh_code6(a, b, v) ==
  LET c == Sqrt(One - Sq(a) - Sq(b)) IN
  <<
    <<0, a, b, c, v>>, <<1, Neg(a), b, c, v>>,
    <<2, a, Neg(b), c, v>>, <<3, Neg(a), Neg(b), c, v>>,
    <<4, a, b, Neg(c), v>>, <<5, Neg(a), b, Neg(c), v>>,
    <<6, a, Neg(b), Neg(c), v>>, <<7, Neg(a), Neg(b), Neg(c), v>>,
    <<8, a, c, b, v>>, <<9, Neg(a), c, b, v>>,
    <<10, a, Neg(c), b, v>>, <<11, Neg(a), Neg(c), b, v>>,
    <<12, a, c, Neg(b), v>>, <<13, Neg(a), c, Neg(b), v>>,
    <<14, a, Neg(c), Neg(b), v>>, <<15, Neg(a), Neg(c), Neg(b), v>>,
    <<16, b, a, c, v>>, <<17, Neg(b), a, c, v>>,
    <<18, b, Neg(a), c, v>>, <<19, Neg(b), Neg(a), c, v>>,
    <<20, b, a, Neg(c), v>>, <<21, Neg(b), a, Neg(c), v>>,
    <<22, b, Neg(a), Neg(c), v>>, <<23, Neg(b), Neg(a), Neg(c), v>>,
    <<24, b, c, a, v>>, <<25, Neg(b), c, a, v>>,
    <<26, b, Neg(c), a, v>>, <<27, Neg(b), Neg(c), a, v>>,
    <<28, b, c, Neg(a), v>>, <<29, Neg(b), c, Neg(a), v>>,
    <<30, b, Neg(c), Neg(a), v>>, <<31, Neg(b), Neg(c), Neg(a), v>>,
    <<32, c, a, b, v>>, <<33, Neg(c), a, b, v>>,
    <<34, c, Neg(a), b, v>>, <<35, Neg(c), Neg(a), b, v>>,
    <<36, c, a, Neg(b), v>>, <<37, Neg(c), a, Neg(b), v>>,
    <<38, c, Neg(a), Neg(b), v>>, <<39, Neg(c), Neg(a), Neg(b), v>>,
    <<40, c, b, a, v>>, <<41, Neg(c), b, a, v>>,
    <<42, c, Neg(b), a, v>>, <<43, Neg(c), Neg(b), a, v>>,
    <<44, c, b, Neg(a), v>>, <<45, Neg(c), b, Neg(a), v>>,
    <<46, c, Neg(b), Neg(a), v>>, <<47, Neg(c), Neg(b), Neg(a), v>>
  >>

\* mutant: the count of class 5 copied into the branch of class 6
num_code6_copied == num_code5

num_code6 == 48

\* the stderr messages
MsgGenOh   == "GEN_OH - Fatal error! Illegal value of code."
MsgRouting == "LD_BY_ORDER - Fatal error! Unexpected value of ORDER."

\* mutant: the branch of an illegal code returns 0
gen_oh_zero(code, a, b, v) ==
  IF code = 1 THEN [rows |-> gen_oh_code1(a, b, v), num |-> num_code1, msg |-> <<>>, exit |-> FALSE]
  ELSE IF code = 2 THEN [rows |-> gen_oh_code2(a, b, v), num |-> num_code2, msg |-> <<>>, exit |-> FALSE]
  ELSE IF code = 3 THEN [rows |-> gen_oh_code3(a, b, v), num |-> num_code3, msg |-> <<>>, exit |-> FALSE]
  ELSE IF code = 4 THEN [rows |-> gen_oh_code4(a, b, v), num |-> num_code4, msg |-> <<>>, exit |-> FALSE]
  ELSE IF code = 5 THEN [rows |-> gen_oh_code5(a, b, v), num |-> num_code5, msg |-> <<>>, exit |-> FALSE]
  ELSE IF code = 6 THEN [rows |-> gen_oh_code6(a, b, v), num |-> num_code6, msg |-> <<>>, exit |-> FALSE]
  ELSE [rows |-> <<>>, num |-> 0, msg |-> <<MsgGenOh>>, exit |-> FALSE]

\* gen_oh: the rows <<i, x[i], y[i], z[i], w[i]>> it writes (relative to the
\* pointers it receives, in program order), the value it returns, what it
\* prints on stderr, and whether it ends the process (exit(1) is commented out)
gen_oh(code, a, b, v) ==
  IF code = 1 THEN [rows |-> gen_oh_code1(a, b, v), num |-> num_code1, msg |-> <<>>, exit |-> FALSE]
  ELSE IF code = 2 THEN [rows |-> gen_oh_code2(a, b, v), num |-> num_code2, msg |-> <<>>, exit |-> FALSE]
  ELSE IF code = 3 THEN [rows |-> gen_oh_code3(a, b, v), num |-> num_code3, msg |-> <<>>, exit |-> FALSE]
  ELSE IF code = 4 THEN [rows |-> gen_oh_code4(a, b, v), num |-> num_code4, msg |-> <<>>, exit |-> FALSE]
  ELSE IF code = 5 THEN [rows |-> gen_oh_code5(a, b, v), num |-> num_code5, msg |-> <<>>, exit |-> FALSE]
  ELSE IF code = 6 THEN [rows |-> gen_oh_code6(a, b, v), num |-> num_code6, msg |-> <<>>, exit |-> FALSE]
  ELSE [rows |-> <<>>, num |-> 1, msg |-> <<MsgGenOh>>, exit |-> FALSE]

\* ------------------------------------------------------- the rule tables
\* One row <<code, a, b, v>> per statement "n = n + gen_oh(code, a, b, v, ...)"
\* of a table function, in program order.  a (b) is the literal assigned to
\* the local a (b) since the previous call, as the coordinate it stands for
\* (its square in units of 1/One, rounded to the nearest unit), or Keep when
\* there is no such assignment; v is the weight literal assigned before the
\* call, digit for digit.  The source line and the literals follow each row.

\* mutant: the last digit of the weight of ld0006 dropped
ld0006_weight ==
  <<
    <<1, Keep, Keep, <<1666666, 6666666, 7000000>> >>   \* v = 0.166666666666667
  >>

\* ld0006 (lines 604-643): a = b = 0.0, n = 0, then one row per "n = n + gen_oh(...)"
ld0006 ==
  <<
    <<1, Keep, Keep, <<1666666, 6666666, 6700000>> >>   \* 640: v = 0.1666666666666667
  >>

\* mutant: the second call of ld0014 made with class 2 (12 points, 18 in all)
ld0014_code ==
  <<
    <<1, Keep, Keep, <<666666, 6666666, 6670000>> >>,  \* 682: v = 0.6666666666666667e-1
    <<2, Keep, Keep, <<750000, 0, 0>> >>   \* 684: v = 0.7500000000000000e-1
  >>

\* ld0014 (lines 646-687): a = b = 0.0, n = 0, then one row per "n = n + gen_oh(...)"
ld0014 ==
  <<
    <<1, Keep, Keep, <<666666, 6666666, 6670000>> >>,  \* 682: v = 0.6666666666666667e-1
    <<3, Keep, Keep, <<750000, 0, 0>> >>   \* 684: v = 0.7500000000000000e-1
  >>

\* mutant: the exponent of the second weight of ld0026 mistyped
ld0026_exponent ==
  <<
    <<1, Keep, Keep, <<476190, 4761904, 7620000>> >>,  \* 726: v = 0.4761904761904762e-1
    <<2, Keep, Keep, <<38095, 2380952, 3810000>> >>,  \* v = 0.3809523809523810e-2
    <<3, Keep, Keep, <<321428, 5714285, 7140000>> >>   \* 730: v = 0.3214285714285714e-1
  >>

\* mutant: the third call of ld0026 made with class 4
ld0026_code ==
  <<
    <<1, Keep, Keep, <<476190, 4761904, 7620000>> >>,  \* 726: v = 0.4761904761904762e-1
    <<2, Keep, Keep, <<380952, 3809523, 8100000>> >>,  \* 728: v = 0.3809523809523810e-1
    <<4, Keep, Keep, <<321428, 5714285, 7140000>> >>   \* 730: v = 0.3214285714285714e-1
  >>

\* ld0026 (lines 690-733): a = b = 0.0, n = 0, then one row per "n = n + gen_oh(...)"
ld0026 ==
  <<
    <<1, Keep, Keep, <<476190, 4761904, 7620000>> >>,  \* 726: v = 0.4761904761904762e-1
    <<2, Keep, Keep, <<380952, 3809523, 8100000>> >>,  \* 728: v = 0.3809523809523810e-1
    <<3, Keep, Keep, <<321428, 5714285, 7140000>> >>   \* 730: v = 0.3214285714285714e-1
  >>

\* ld0038 (lines 736-780): a = b = 0.0, n = 0, then one row per "n = n + gen_oh(...)"
ld0038 ==
  <<
    <<1, Keep, Keep, <<95238, 952380, 9524000>> >>,  \* 772: v = 0.9523809523809524e-2
    <<3, Keep, Keep, <<321428, 5714285, 7140000>> >>,  \* 774: v = 0.3214285714285714e-1
    <<5, 63397460, Keep, <<285714, 2857142, 8570000>> >>   \* 777: a = 0.4597008433809831; v = 0.2857142857142857e-1
  >>

\* mutant: the third call of ld0050 made with class 2 again
ld0050_repeat ==
  <<
    <<1, Keep, Keep, <<126984, 1269841, 2700000>> >>,  \* 819: v = 0.1269841269841270e-1
    <<2, Keep, Keep, <<225749, 5590828, 9240000>> >>,  \* 821: v = 0.2257495590828924e-1
    <<2, Keep, Keep, <<210937, 5000000, 0>> >>,  \* 823: v = 0.2109375000000000e-1
    <<4, 27272727, Keep, <<201733, 3553791, 8870000>> >>   \* 826: a = 0.3015113445777636; v = 0.2017333553791887e-1
  >>

\* ld0050 (lines 783-829): a = b = 0.0, n = 0, then one row per "n = n + gen_oh(...)"
ld0050 ==
  <<
    <<1, Keep, Keep, <<126984, 1269841, 2700000>> >>,  \* 819: v = 0.1269841269841270e-1
    <<2, Keep, Keep, <<225749, 5590828, 9240000>> >>,  \* 821: v = 0.2257495590828924e-1
    <<3, Keep, Keep, <<210937, 5000000, 0>> >>,  \* 823: v = 0.2109375000000000e-1
    <<4, 27272727, Keep, <<201733, 3553791, 8870000>> >>   \* 826: a = 0.3015113445777636; v = 0.2017333553791887e-1
  >>

\* ld0074 (lines 832-881): a = b = 0.0, n = 0, then one row per "n = n + gen_oh(...)"
ld0074 ==
  <<
    <<1, Keep, Keep, <<5130, 6717973, 3846400>> >>,  \* 868: v = 0.5130671797338464e-3
    <<2, Keep, Keep, <<166040, 6956574, 2040000>> >>,  \* 870: v = 0.1660406956574204e-1
    <<3, Keep, Keep, <<-295861, 6103896, 1040000>> >>,  \* 872: v = -0.2958603896103896e-1
    <<4, 69230769, Keep, <<265762, 708215, 9460000>> >>,  \* 875: a = 0.4803844614152614; v = 0.2657620708215946e-1
    <<5, 30868528, Keep, <<165221, 7099371, 5710000>> >>   \* 878: a = 0.3207726489807764; v = 0.1652217099371571e-1
  >>

\* ld0086 (lines 884-934): a = b = 0.0, n = 0, then one row per "n = n + gen_oh(...)"
ld0086 ==
  <<
    <<1, Keep, Keep, <<115440, 1154401, 1540000>> >>,  \* 920: v = 0.1154401154401154e-1
    <<3, Keep, Keep, <<119439, 908585, 6280000>> >>,  \* 922: v = 0.1194390908585628e-1
    <<4, 40981879, Keep, <<111105, 5571060, 3400000>> >>,  \* 925: a = 0.3696028464541502; v = 0.1111055571060340e-1
    <<4, 144638246, Keep, <<118765, 129453, 7140000>> >>,  \* 928: a = 0.6943540066026664; v = 0.1187650129453714e-1
    <<5, 42017356, Keep, <<118123, 374690, 4480000>> >>   \* 931: a = 0.3742430390903412; v = 0.1181230374690448e-1
  >>

\* ld0110 (lines 937-990): a = b = 0.0, n = 0, then one row per "n = n + gen_oh(...)"
ld0110 ==
  <<
    <<1, Keep, Keep, <<38282, 7049493, 7162000>> >>,  \* 973: v = 0.3828270494937162e-2
    <<3, Keep, Keep, <<97937, 3751248, 7512000>> >>,  \* 975: v = 0.9793737512487512e-2
    <<4, 10280340, Keep, <<82117, 3728319, 1111000>> >>,  \* 978: a = 0.1851156353447362; v = 0.8211737283191111e-2
    <<4, 143004367, Keep, <<99428, 1489117, 8103000>> >>,  \* 981: a = 0.6904210483822922; v = 0.9942814891178103e-2
    <<4, 46971048, Keep, <<95954, 7133607, 963000>> >>,  \* 984: a = 0.3956894730559419; v = 0.9595471336070963e-2
    <<5, 68651078, Keep, <<96949, 9636166, 3028000>> >>   \* 987: a = 0.4783690288121502; v = 0.9694996361663028e-2
  >>

\* mutant: a = 0.7764410400114264 for 0.6764410400114264 in ld0146
ld0146_literal ==
  <<
    <<1, Keep, Keep, <<5996, 3136886, 2138100>> >>,  \* 1029: v = 0.5996313688621381e-3
    <<2, Keep, Keep, <<73729, 9971862, 756000>> >>,  \* 1031: v = 0.7372999718620756e-2
    <<3, Keep, Keep, <<72105, 1536014, 4488000>> >>,  \* 1033: v = 0.7210515360144488e-2
    <<4, 180858206, Keep, <<71163, 5549311, 7555000>> >>,  \* 1036: a = 0.6764410400114264; v = 0.7116355493117555e-2
    <<4, 52290904, Keep, <<67538, 2948631, 4477000>> >>,  \* 1039: a = 0.4174961227965453; v = 0.6753829486314477e-2
    <<4, 7438820, Keep, <<75743, 9415905, 4034000>> >>,  \* 1042: a = 0.1574676672039082; v = 0.7574394159054034e-2
    <<6, 5909890, 60569998, <<69910, 8735330, 3262000>> >>   \* 1046: a = 0.1403553811713183; b = 0.4493328323269557; v = 0.6991087353303262e-2
  >>

\* ld0146 (lines 993-1049): a = b = 0.0, n = 0, then one row per "n = n + gen_oh(...)"
ld0146 ==
  <<
    <<1, Keep, Keep, <<5996, 3136886, 2138100>> >>,  \* 1029: v = 0.5996313688621381e-3
    <<2, Keep, Keep, <<73729, 9971862, 756000>> >>,  \* 1031: v = 0.7372999718620756e-2
    <<3, Keep, Keep, <<72105, 1536014, 4488000>> >>,  \* 1033: v = 0.7210515360144488e-2
    <<4, 137271744, Keep, <<71163, 5549311, 7555000>> >>,  \* 1036: a = 0.6764410400114264; v = 0.7116355493117555e-2
    <<4, 52290904, Keep, <<67538, 2948631, 4477000>> >>,  \* 1039: a = 0.4174961227965453; v = 0.6753829486314477e-2
    <<4, 7438820, Keep, <<75743, 9415905, 4034000>> >>,  \* 1042: a = 0.1574676672039082; v = 0.7574394159054034e-2
    <<6, 5909890, 60569998, <<69910, 8735330, 3262000>> >>   \* 1046: a = 0.1403553811713183; b = 0.4493328323269557; v = 0.6991087353303262e-2
  >>

\* mutant: the class-5 call of ld0170 made with code 7
ld0170_code ==
  <<
    <<1, Keep, Keep, <<55448, 4290203, 7365000>> >>,  \* 1088: v = 0.5544842902037365e-2
    <<2, Keep, Keep, <<60713, 3277067, 752000>> >>,  \* 1090: v = 0.6071332770670752e-2
    <<3, Keep, Keep, <<63836, 7477351, 5093000>> >>,  \* 1092: v = 0.6383674773515093e-2
    <<4, 19526670, Keep, <<51833, 8758774, 7790000>> >>,  \* 1095: a = 0.2551252621114134; v = 0.5183387587747790e-2
    <<4, 136428482, Keep, <<63179, 2900981, 3725000>> >>,  \* 1098: a = 0.6743601460362766; v = 0.6317929009813725e-2
    <<4, 55958969, Keep, <<62016, 7000658, 9077000>> >>,  \* 1101: a = 0.4318910696719410; v = 0.6201670006589077e-2
    <<7, 20497911, Keep, <<54771, 4338513, 7348000>> >>,  \* 1104: a = 0.2613931360335988; v = 0.5477143385137348e-2
    <<6, 74713868, 6278222, <<59683, 8398768, 1156000>> >>   \* 1108: a = 0.4990453161796037; b = 0.1446630744325115; v = 0.5968383987681156e-2
  >>

\* ld0170 (lines 1052-1111): a = b = 0.0, n = 0, then one row per "n = n + gen_oh(...)"
ld0170 ==
  <<
    <<1, Keep, Keep, <<55448, 4290203, 7365000>> >>,  \* 1088: v = 0.5544842902037365e-2
    <<2, Keep, Keep, <<60713, 3277067, 752000>> >>,  \* 1090: v = 0.6071332770670752e-2
    <<3, Keep, Keep, <<63836, 7477351, 5093000>> >>,  \* 1092: v = 0.6383674773515093e-2
    <<4, 19526670, Keep, <<51833, 8758774, 7790000>> >>,  \* 1095: a = 0.2551252621114134; v = 0.5183387587747790e-2
    <<4, 136428482, Keep, <<63179, 2900981, 3725000>> >>,  \* 1098: a = 0.6743601460362766; v = 0.6317929009813725e-2
    <<4, 55958969, Keep, <<62016, 7000658, 9077000>> >>,  \* 1101: a = 0.4318910696719410; v = 0.6201670006589077e-2
    <<5, 20497911, Keep, <<54771, 4338513, 7348000>> >>,  \* 1104: a = 0.2613931360335988; v = 0.5477143385137348e-2
    <<6, 74713868, 6278222, <<59683, 8398768, 1156000>> >>   \* 1108: a = 0.4990453161796037; b = 0.1446630744325115; v = 0.5968383987681156e-2
  >>

\* ld0194 (lines 1114-1176): a = b = 0.0, n = 0, then one row per "n = n + gen_oh(...)"
ld0194 ==
  <<
    <<1, Keep, Keep, <<17823, 4044724, 4611000>> >>,  \* 1150: v = 0.1782340447244611e-2
    <<2, Keep, Keep, <<57169, 594997, 7102000>> >>,  \* 1152: v = 0.5716905949977102e-2
    <<3, Keep, Keep, <<55733, 8317884, 8738000>> >>,  \* 1154: v = 0.5573383178848738e-2
    <<4, 135192037, Keep, <<56087, 408258, 7997000>> >>,  \* 1157: a = 0.6712973442695226; v = 0.5608704082587997e-2
    <<4, 25099072, Keep, <<51582, 3771180, 5383000>> >>,  \* 1160: a = 0.2892465627575439; v = 0.5158237711805383e-2
    <<4, 59325644, Keep, <<55187, 7146727, 3614000>> >>,  \* 1163: a = 0.4446933178717437; v = 0.5518771467273614e-2
    <<4, 5064818, Keep, <<41067, 7702816, 9394000>> >>,  \* 1166: a = 0.1299335447650067; v = 0.4106777028169394e-2
    <<5, 35867113, Keep, <<50518, 4606461, 4808000>> >>,  \* 1169: a = 0.3457702197611283; v = 0.5051846064614808e-2
    <<6, 7588280, 209686866, <<55302, 4891623, 3094000>> >>   \* 1173: a = 0.1590417105383530; b = 0.8360360154824589; v = 0.5530248916233094e-2
  >>

\* ld0230 (lines 1179-1245): a = b = 0.0, n = 0, then one row per "n = n + gen_oh(...)"
ld0230 ==
  <<
    <<1, Keep, Keep, <<-552264, 80272, 6750000>> >>,  \* 1215: v = -0.5522639919727325e-1
    <<3, Keep, Keep, <<44502, 7460744, 5226000>> >>,  \* 1217: v = 0.4450274607445226e-2
    <<4, 60535396, Keep, <<44968, 4106792, 1404000>> >>,  \* 1220: a = 0.4492044687397611; v = 0.4496841067921404e-2
    <<4, 19057543, Keep, <<50491, 5345047, 8750000>> >>,  \* 1223: a = 0.2520419490210201; v = 0.5049153450478750e-2
    <<4, 146241062, Keep, <<39764, 801805, 1883000>> >>,  \* 1226: a = 0.6981906658447242; v = 0.3976408018051883e-2
    <<4, 130181724, Keep, <<44014, 65038, 1014000>> >>,  \* 1229: a = 0.6587405243460960; v = 0.4401400650381014e-2
    <<4, 489295, Keep, <<172454, 4350544, 4010000>> >>,  \* 1232: a = 0.4038544050097660e-1; v = 0.1724544350544401e-1
    <<5, 101751418, Keep, <<42310, 8309535, 7343000>> >>,  \* 1235: a = 0.5823842309715585; v = 0.4231083095357343e-2
    <<5, 37719739, Keep, <<51980, 6986406, 4399000>> >>,  \* 1238: a = 0.3545877390518688; v = 0.5198069864064399e-2
    <<6, 15488431, 70994796, <<46957, 2097256, 8883000>> >>   \* 1242: a = 0.2272181808998187; b = 0.4864661535886647; v = 0.4695720972568883e-2
  >>

\* ld0266 (lines 1248-1317): a = b = 0.0, n = 0, then one row per "n = n + gen_oh(...)"
ld0266 ==
  <<
    <<1, Keep, Keep, <<-13138, 3087267, 3048000>> >>,  \* 1284: v = -0.1313769127326952e-2
    <<2, Keep, Keep, <<-25228, 7129514, 664000>> >>,  \* 1286: v = -0.2522728704859336e-2
    <<3, Keep, Keep, <<41868, 5388170, 583000>> >>,  \* 1288: v = 0.4186853881700583e-2
    <<4, 148658333, Keep, <<53151, 6797781, 885000>> >>,  \* 1291: a = 0.7039373391585475; v = 0.5315167977810885e-2
    <<4, 3075628, Keep, <<40471, 4237708, 6219000>> >>,  \* 1294: a = 0.1012526248572414; v = 0.4047142377086219e-2
    <<4, 64796339, Keep, <<41124, 8239440, 6990000>> >>,  \* 1297: a = 0.4647448726420539; v = 0.4112482394406990e-2
    <<4, 32224458, Keep, <<35955, 8489975, 8782000>> >>,  \* 1300: a = 0.3277420654971629; v = 0.3595584899758782e-2
    <<4, 131486652, Keep, <<42561, 3135142, 8158000>> >>,  \* 1303: a = 0.6620338663699974; v = 0.4256131351428158e-2
    <<5, 217082039, Keep, <<42295, 8270064, 7240000>> >>,  \* 1306: a = 0.8506508083520399; v = 0.4229582700647240e-2
    <<6, 31366267, 3989002, <<40809, 1422578, 505000>> >>,  \* 1310: a = 0.3233484542692899; b = 0.1153112011009701; v = 0.4080914225780505e-2
    <<6, 16074760, 82528163, <<40714, 6759383, 964000>> >>   \* 1314: a = 0.2314790158712601; b = 0.5244939240922365; v = 0.4071467593830964e-2
  >>

\* ld0302 (lines 1320-1393): a = b = 0.0, n = 0, then one row per "n = n + gen_oh(...)"
ld0302 ==
  <<
    <<1, Keep, Keep, <<8545, 9117251, 2814800>> >>,  \* 1356: v = 0.8545911725128148e-3
    <<3, Keep, Keep, <<35991, 1928502, 5571000>> >>,  \* 1358: v = 0.3599119285025571e-2
    <<4, 37079181, Keep, <<34497, 8842430, 5883000>> >>,  \* 1361: a = 0.3515640345570105; v = 0.3449788424305883e-2
    <<4, 129350046, Keep, <<36048, 2260141, 9882000>> >>,  \* 1364: a = 0.6566329410219612; v = 0.3604822601419882e-2
    <<4, 67091859, Keep, <<35767, 2966174, 3367000>> >>,  \* 1367: a = 0.4729054132581005; v = 0.3576729661743367e-2
    <<4, 2775356, Keep, <<23521, 141368, 9164000>> >>,  \* 1370: a = 0.9618308522614784e-1; v = 0.2352101413689164e-2
    <<4, 14780475, Keep, <<31089, 5312241, 3675000>> >>,  \* 1373: a = 0.2219645236294178; v = 0.3108953122413675e-2
    <<4, 147494605, Keep, <<36500, 4580767, 7255000>> >>,  \* 1376: a = 0.7011766416089545; v = 0.3650045807677255e-2
    <<5, 20974633, Keep, <<29823, 4496317, 1804000>> >>,  \* 1379: a = 0.2644152887060663; v = 0.2982344963171804e-2
    <<5, 98119369, Keep, <<36008, 2093221, 6460000>> >>,  \* 1382: a = 0.5718955891878961; v = 0.3600820932216460e-2
    <<6, 18900823, 192034921, <<35715, 4055427, 3387000>> >>,  \* 1386: a = 0.2510034751770465; b = 0.8000727494073952; v = 0.3571540554273387e-2
    <<6, 4564926, 51114318, <<33923, 1220500, 6170000>> >>   \* 1390: a = 0.1233548532583327; b = 0.4127724083168531; v = 0.3392312205006170e-2
  >>

\* ld0350 (lines 1396-1473): a = b = 0.0, n = 0, then one row per "n = n + gen_oh(...)"
ld0350 ==
  <<
    <<1, Keep, Keep, <<30067, 9674945, 3936000>> >>,  \* 1432: v = 0.3006796749453936e-2
    <<3, Keep, Keep, <<30506, 2774565, 771000>> >>,  \* 1434: v = 0.3050627745650771e-2
    <<4, 149910818, Keep, <<16211, 460028, 8991000>> >>,  \* 1437: a = 0.7068965463912316; v = 0.1621104600288991e-2
    <<4, 68966944, Keep, <<30057, 148490, 1752000>> >>,  \* 1440: a = 0.4794682625712025; v = 0.3005701484901752e-2
    <<4, 11146152, Keep, <<29909, 9252965, 3774000>> >>,  \* 1443: a = 0.1927533154878019; v = 0.2990992529653774e-2
    <<4, 144089584, Keep, <<29821, 7064410, 7595000>> >>,  \* 1446: a = 0.6930357961327123; v = 0.2982170644107595e-2
    <<4, 39059532, Keep, <<27215, 6423731, 992000>> >>,  \* 1449: a = 0.3608302115520091; v = 0.2721564237310992e-2
    <<4, 126690967, Keep, <<30335, 1379581, 1141000>> >>,  \* 1452: a = 0.6498486161496169; v = 0.3033513795811141e-2
    <<5, 11208829, Keep, <<30079, 4955521, 8533000>> >>,  \* 1455: a = 0.1932945013230339; v = 0.3007949555218533e-2
    <<5, 43331285, Keep, <<28819, 6460305, 5307000>> >>,  \* 1458: a = 0.3800494919899303; v = 0.2881964603055307e-2
    <<6, 25222324, 188870673, <<29583, 5762653, 5696000>> >>,  \* 1462: a = 0.2899558825499574; b = 0.7934537856582316; v = 0.2958357626535696e-2
    <<6, 2813466, 205715021, <<30360, 2002640, 7088000>> >>,  \* 1466: a = 0.9684121455103957e-1; b = 0.8280801506686862; v = 0.3036020026407088e-2
    <<6, 10084448, 247048268, <<28321, 8740392, 6303000>> >>   \* 1470: a = 0.1833434647041659; b = 0.9074658265305127; v = 0.2832187403926303e-2
  >>

\* ld0434 (lines 1476-1562): a = b = 0.0, n = 0, then one row per "n = n + gen_oh(...)"
ld0434 ==
  <<
    <<1, Keep, Keep, <<5265, 8979682, 2443600>> >>,  \* 1512: v = 0.5265897968224436e-3
    <<2, Keep, Keep, <<25482, 1997200, 2607000>> >>,  \* 1514: v = 0.2548219972002607e-2
    <<3, Keep, Keep, <<25123, 1741892, 7307000>> >>,  \* 1516: v = 0.2512317418927307e-2
    <<4, 143217199, Keep, <<25304, 380118, 6355000>> >>,  \* 1519: a = 0.6909346307509111; v = 0.2530403801186355e-2
    <<4, 9450129, Keep, <<20142, 7902091, 8528000>> >>,  \* 1522: a = 0.1774836054609158; v = 0.2014279020918528e-2
    <<4, 72452291, Keep, <<25017, 2516840, 2936000>> >>,  \* 1525: a = 0.4914342637784746; v = 0.2501725168402936e-2
    <<4, 125065557, Keep, <<25132, 6717459, 7564000>> >>,  \* 1528: a = 0.6456664707424256; v = 0.2513267174597564e-2
    <<4, 24560924, Keep, <<23026, 9478222, 7416000>> >>,  \* 1531: a = 0.2861289010307638; v = 0.2302694782227416e-2
    <<4, 1718277, Keep, <<14624, 9562159, 4614000>> >>,  \* 1534: a = 0.7568084367178018e-1; v = 0.1462495621594614e-2
    <<4, 46270108, Keep, <<24453, 7343731, 2980000>> >>,  \* 1537: a = 0.3927259763368002; v = 0.2445373437312980e-2
    <<5, 233278402, Keep, <<24174, 4237563, 8981000>> >>,  \* 1540: a = 0.8818132877794288; v = 0.2417442375638981e-2
    <<5, 286735640, Keep, <<19109, 5128217, 9532000>> >>,  \* 1543: a = 0.9776428111182649; v = 0.1910951282179532e-2
    <<6, 12666901, 226520162, <<24169, 3004432, 4775000>> >>,  \* 1547: a = 0.2054823696403044; b = 0.8689460322872412; v = 0.2416930044324775e-2
    <<6, 104612639, 191965372, <<25122, 3685456, 3495000>> >>,  \* 1551: a = 0.5905157048925271; b = 0.7999278543857286; v = 0.2512236854563495e-2
    <<6, 92412574, 178677688, <<24966, 4405455, 3086000>> >>,  \* 1555: a = 0.5550152361076807; b = 0.7717462626915901; v = 0.2496644054553086e-2
    <<6, 263492460, 33554295, <<22366, 776043, 7849000>> >>   \* 1559: a = 0.9371809858553722; b = 0.3344363145343455; v = 0.2236607760437849e-2
  >>

\* ld0590 (lines 1565-1666): a = b = 0.0, n = 0, then one row per "n = n + gen_oh(...)"
ld0590 ==
  <<
    <<1, Keep, Keep, <<3095, 1212953, 618700>> >>,  \* 1601: v = 0.3095121295306187e-3
    <<3, Keep, Keep, <<18523, 7969859, 7489000>> >>,  \* 1603: v = 0.1852379698597489e-2
    <<4, 148725139, Keep, <<18717, 9063927, 7744000>> >>,  \* 1606: a = 0.7040954938227469; v = 0.1871790639277744e-2
    <<4, 139036138, Keep, <<18588, 1258543, 8317000>> >>,  \* 1609: a = 0.6807744066455243; v = 0.1858812585438317e-2
    <<4, 121828063, Keep, <<18520, 2882829, 6213000>> >>,  \* 1612: a = 0.6372546939258752; v = 0.1852028828296213e-2
    <<4, 76338511, Keep, <<18467, 1595615, 1242000>> >>,  \* 1615: a = 0.5044419707800358; v = 0.1846715956151242e-2
    <<4, 53317942, Keep, <<18184, 7177816, 2769000>> >>,  \* 1618: a = 0.4215761784010967; v = 0.1818471778162769e-2
    <<4, 33025794, Keep, <<17495, 6465728, 1154000>> >>,  \* 1621: a = 0.3317920736472123; v = 0.1749564657281154e-2
    <<4, 17060907, Keep, <<16172, 1064725, 4411000>> >>,  \* 1624: a = 0.2384736701421887; v = 0.1617210647254411e-2
    <<4, 6386362, Keep, <<13847, 3723485, 1692000>> >>,  \* 1627: a = 0.1459036449157763; v = 0.1384737234851692e-2
    <<4, 1114483, Keep, <<9764, 3311650, 5105000>> >>,  \* 1630: a = 0.6095034115507196e-1; v = 0.9764331165051050e-3
    <<5, 112247321, Keep, <<18571, 6119677, 4078000>> >>,  \* 1633: a = 0.6116843442009876; v = 0.1857161196774078e-2
    <<5, 47157855, Keep, <<17051, 5399639, 5864000>> >>,  \* 1636: a = 0.3964755348199858; v = 0.1705153996395864e-2
    <<5, 8924619, Keep, <<13003, 2168588, 6048000>> >>,  \* 1639: a = 0.1724782009907724; v = 0.1300321685886048e-2
    <<6, 94425180, 37134902, <<18428, 6647290, 5286000>> >>,  \* 1643: a = 0.5610263808622060; b = 0.3518280927733519; v = 0.1842866472905286e-2
    <<6, 67470870, 20825196, <<18026, 5893437, 7451000>> >>,  \* 1647: a = 0.4742392842551980; b = 0.2634716655937950; v = 0.1802658934377451e-2
    <<6, 107429310, 9900552, <<18498, 3056044, 3660000>> >>,  \* 1651: a = 0.5984126497885380; b = 0.1816640840360209; v = 0.1849830560443660e-2
    <<6, 43115848, 8883409, <<17139, 450710, 6709000>> >>,  \* 1655: a = 0.3791035407695563; b = 0.1720795225656878; v = 0.1713904507106709e-2
    <<6, 23163074, 2023612, <<15552, 1360339, 6808000>> >>,  \* 1659: a = 0.2778673190586244; b = 0.8213021581932511e-1; v = 0.1555213603396808e-2
    <<6, 76010308, 2429571, <<18022, 3912800, 8525000>> >>   \* 1663: a = 0.5033564271075117; b = 0.8999205842074875e-1; v = 0.1802239128008525e-2
  >>

\* ld0770 (lines 1669-1787): a = b = 0.0, n = 0, then one row per "n = n + gen_oh(...)"
ld0770 ==
  <<
    <<1, Keep, Keep, <<2192, 9420881, 8118400>> >>,  \* 1705: v = 0.2192942088181184e-3
    <<2, Keep, Keep, <<14364, 3361731, 9080000>> >>,  \* 1707: v = 0.1436433617319080e-2
    <<3, Keep, Keep, <<14219, 4034433, 5877000>> >>,  \* 1709: v = 0.1421940344335877e-2
    <<4, 776389, Keep, <<6798, 1235110, 5050200>> >>,  \* 1712: a = 0.5087204410502360e-1; v = 0.6798123511050502e-3
    <<4, 4525417, Keep, <<9913, 1842352, 9491200>> >>,  \* 1715: a = 0.1228198790178831; v = 0.9913184235294912e-3
    <<4, 12324859, Keep, <<11802, 783323, 8949000>> >>,  \* 1718: a = 0.2026890814408786; v = 0.1180207833238949e-2
    <<4, 24328957, Keep, <<12965, 9960208, 921000>> >>,  \* 1721: a = 0.2847745156464294; v = 0.1296599602080921e-2
    <<4, 40114783, Keep, <<13658, 7142742, 8316000>> >>,  \* 1724: a = 0.3656719078978026; v = 0.1365871427428316e-2
    <<4, 58828590, Keep, <<14029, 8860477, 5325000>> >>,  \* 1727: a = 0.4428264886713469; v = 0.1402988604775325e-2
    <<4, 79277910, Keep, <<14186, 4556359, 5609000>> >>,  \* 1730: a = 0.5140619627249735; v = 0.1418645563595609e-2
    <<4, 119312089, Keep, <<14213, 7674185, 1662000>> >>,  \* 1733: a = 0.6306401219166803; v = 0.1421376741851662e-2
    <<4, 135349565, Keep, <<14239, 9647549, 962000>> >>,  \* 1736: a = 0.6716883332022612; v = 0.1423996475490962e-2
    <<4, 146152518, Keep, <<14315, 5404217, 8567000>> >>,  \* 1739: a = 0.6979792685336881; v = 0.1431554042178567e-2
    <<5, 6280261, Keep, <<9254, 4014998, 6536800>> >>,  \* 1742: a = 0.1446865674195309; v = 0.9254401499865368e-3
    <<5, 34481659, Keep, <<12502, 3999505, 3509000>> >>,  \* 1745: a = 0.3390263475411216; v = 0.1250239995053509e-2
    <<5, 85412434, Keep, <<13943, 6584332, 9230000>> >>,  \* 1748: a = 0.5335804651263506; v = 0.1394365843329230e-2
    <<6, 1446584, 16640730, <<11270, 8909467, 1749000>> >>,  \* 1752: a = 0.6944024393349413e-1; b = 0.2355187894242326; v = 0.1127089094671749e-2
    <<6, 15445139, 50483703, <<13457, 5376091, 670000>> >>,  \* 1756: a = 0.2269004109529460; b = 0.4102182474045730; v = 0.1345753760910670e-2
    <<6, 1932295, 115852664, <<14249, 5728331, 6783000>> >>,  \* 1760: a = 0.8025574607775339e-1; b = 0.6214302417481605; v = 0.1424957283316783e-2
    <<6, 6465068, 31595611, <<12615, 2334123, 7750000>> >>,  \* 1764: a = 0.1467999527896572; b = 0.3245284345717394; v = 0.1261523341237750e-2
    <<6, 7408910, 81885642, <<13925, 4710605, 2696000>> >>,  \* 1768: a = 0.1571507769824727; b = 0.5224482189696630; v = 0.1392547106052696e-2
    <<6, 16789652, 108632602, <<14187, 6167787, 7656000>> >>,  \* 1772: a = 0.2365702993157246; b = 0.6017546634089558; v = 0.1418761677877656e-2
    <<6, 1785552, 56678156, <<13383, 6668447, 9554000>> >>,  \* 1776: a = 0.7714815866765732e-1; b = 0.4346575516141163; v = 0.1338366684479554e-2
    <<6, 28144743, 72289735, <<13937, 86267, 6131000>> >>,  \* 1780: a = 0.3062936666210730; b = 0.4908826589037616; v = 0.1393700862676131e-2
    <<6, 43834000, 95725745, <<14159, 1475746, 6932000>> >>   \* 1784: a = 0.3822477379524787; b = 0.5648768149099500; v = 0.1415914757466932e-2
  >>

\* ld0974 (lines 1790-1927): a = b = 0.0, n = 0, then one row per "n = n + gen_oh(...)"
ld0974 ==
  <<
    <<1, Keep, Keep, <<1438, 2941905, 2743100>> >>,  \* 1826: v = 0.1438294190527431e-3
    <<3, Keep, Keep, <<11257, 7228828, 7004000>> >>,  \* 1828: v = 0.1125772288287004e-2
    <<4, 552886, Keep, <<4948, 293419, 4924100>> >>,  \* 1831: a = 0.4292963545341347e-1; v = 0.4948029341949241e-3
    <<4, 3316495, Keep, <<7357, 9901091, 2547000>> >>,  \* 1834: a = 0.1051426854086404; v = 0.7357990109125470e-3
    <<4, 9187761, Keep, <<8889, 1327713, 438400>> >>,  \* 1837: a = 0.1750024867623087; v = 0.8889132771304384e-3
    <<4, 18416299, Keep, <<9888, 3478389, 2143500>> >>,  \* 1840: a = 0.2477653379650257; v = 0.9888347838921435e-3
    <<4, 30846218, Keep, <<10532, 9968170, 9471000>> >>,  \* 1843: a = 0.3206567123955957; v = 0.1053299681709471e-2
    <<4, 46017404, Keep, <<10927, 7880701, 4578000>> >>,  \* 1846: a = 0.3916520749849983; v = 0.1092778807014578e-2
    <<4, 63227047, Keep, <<11143, 8939406, 3227000>> >>,  \* 1849: a = 0.4590825874187624; v = 0.1114389394063227e-2
    <<4, 81575030, Keep, <<11237, 2478805, 1555000>> >>,  \* 1852: a = 0.5214563888415861; v = 0.1123724788051555e-2
    <<4, 117306414, Keep, <<11252, 3932524, 3814000>> >>,  \* 1855: a = 0.6253170244654199; v = 0.1125239325243814e-2
    <<4, 132186214, Keep, <<11261, 5327181, 5905000>> >>,  \* 1858: a = 0.6637926744523170; v = 0.1126153271815905e-2
    <<4, 143261316, Keep, <<11302, 8693112, 3841000>> >>,  \* 1861: a = 0.6910410398498301; v = 0.1130286931123841e-2
    <<4, 149230492, Keep, <<11349, 8653436, 3955000>> >>,  \* 1864: a = 0.7052907007457760; v = 0.1134986534363955e-2
    <<5, 4588182, Keep, <<6823, 3679271, 993100>> >>,  \* 1867: a = 0.1236686762657990; v = 0.6823367927109931e-3
    <<5, 25944510, Keep, <<9454, 1581604, 4709600>> >>,  \* 1870: a = 0.2940777114468387; v = 0.9454158160447096e-3
    <<5, 66206674, Keep, <<10744, 2997538, 5679000>> >>,  \* 1873: a = 0.4697753849207649; v = 0.1074429975385679e-2
    <<5, 120380074, Keep, <<11293, 8656, 9132000>> >>,  \* 1876: a = 0.6334563241139567; v = 0.1129300086569132e-2
    <<6, 1070678, 12352090, <<8436, 8845009, 195400>> >>,  \* 1880: a = 0.5974048614181342e-1; b = 0.2029128752777523; v = 0.8436884500901954e-3
    <<6, 5678150, 63552386, <<10752, 5572044, 8885000>> >>,  \* 1884: a = 0.1375760408473636; b = 0.4602621942484054; v = 0.1075255720448885e-2
    <<6, 34496979, 75923043, <<11085, 7723686, 4462000>> >>,  \* 1888: a = 0.3391016526336286; b = 0.5030673999662036; v = 0.1108577236864462e-2
    <<6, 4851473, 23816718, <<9566, 4753237, 8335700>> >>,  \* 1892: a = 0.1271675191439820; b = 0.2817606422442134; v = 0.9566475323783357e-3
    <<6, 21758698, 56287270, <<10806, 6325071, 7391000>> >>,  \* 1896: a = 0.2693120740413512; b = 0.4331561291720157; v = 0.1080663250717391e-2
    <<6, 6047381, 117418890, <<11267, 9713119, 6295000>> >>,  \* 1900: a = 0.1419786452601918; b = 0.6256167358580814; v = 0.1126797131196295e-2
    <<6, 1350435, 43283419, <<10225, 6871535, 8061000>> >>,  \* 1904: a = 0.6709284600738255e-1; b = 0.3798395216859157; v = 0.1022568715358061e-2
    <<6, 1494350, 91328598, <<11089, 6026771, 3108000>> >>,  \* 1908: a = 0.7057738183256172e-1; b = 0.5517505421423520; v = 0.1108960267713108e-2
    <<6, 23250105, 109068922, <<11227, 9065343, 5766000>> >>,  \* 1912: a = 0.2783888477882155; b = 0.6029619156159187; v = 0.1122790653435766e-2
    <<6, 11756198, 38655821, <<10324, 184711, 7460000>> >>,  \* 1916: a = 0.1979578938917407; b = 0.3589606329589096; v = 0.1032401847117460e-2
    <<6, 13070552, 85824698, <<11072, 4938228, 3854000>> >>,  \* 1920: a = 0.2087307061103274; b = 0.5348666438135476; v = 0.1107249382283854e-2
    <<6, 49332047, 96616791, <<11217, 8004851, 9972000>> >>   \* 1924: a = 0.4055122137872836; b = 0.5674997546074373; v = 0.1121780048519972e-2
  >>

\* ld1202 (lines 1930-2088): a = b = 0.0, n = 0, then one row per "n = n + gen_oh(...)"
ld1202 ==
  <<
    <<1, Keep, Keep, <<1105, 1892332, 6757200>> >>,  \* 1966: v = 0.1105189233267572e-3
    <<2, Keep, Keep, <<9205, 2327380, 9074100>> >>,  \* 1968: v = 0.9205232738090741e-3
    <<3, Keep, Keep, <<9133, 1597864, 4356100>> >>,  \* 1970: v = 0.9133159786443561e-3
    <<4, 413510, Keep, <<3690, 4218980, 1789900>> >>,  \* 1973: a = 0.3712636449657089e-1; v = 0.3690421898017899e-3
    <<4, 2506221, Keep, <<5603, 9909286, 8066000>> >>,  \* 1976: a = 0.9140060412262223e-1; v = 0.5603990928680660e-3
    <<4, 7032598, Keep, <<6865, 2976292, 8260900>> >>,  \* 1979: a = 0.1531077852469906; v = 0.6865297629282609e-3
    <<4, 14269352, Keep, <<7720, 3385511, 4563000>> >>,  \* 1982: a = 0.2180928891660612; v = 0.7720338551145630e-3
    <<4, 24194662, Keep, <<8301, 5459588, 9479500>> >>,  \* 1985: a = 0.2839874532200175; v = 0.8301545958894795e-3
    <<4, 36564963, Keep, <<8686, 6925501, 7962800>> >>,  \* 1988: a = 0.3491177600963764; v = 0.8686692550179628e-3
    <<4, 50958592, Keep, <<8927, 762858, 4689000>> >>,  \* 1991: a = 0.4121431461444309; v = 0.8927076285846890e-3
    <<4, 66806703, Keep, <<9060, 8202385, 6821900>> >>,  \* 1994: a = 0.4718993627149127; v = 0.9060820238568219e-3
    <<4, 83418189, Keep, <<9119, 7772549, 4086700>> >>,  \* 1997: a = 0.5273145452842337; v = 0.9119777254940867e-3
    <<4, 115672752, Keep, <<9128, 7201386, 418100>> >>,  \* 2000: a = 0.6209475332444019; v = 0.9128720138604181e-3
    <<4, 129483770, Keep, <<9130, 7149356, 9173500>> >>,  \* 2003: a = 0.6569722711857291; v = 0.9130714935691735e-3
    <<4, 140430202, Keep, <<9152, 8737845, 5411600>> >>,  \* 2006: a = 0.6841788309070143; v = 0.9152873784554116e-3
    <<4, 147529858, Keep, <<9187, 4362743, 2165400>> >>,  \* 2009: a = 0.7012604330123631; v = 0.9187436274321654e-3
    <<5, 3450011, Keep, <<5176, 9773129, 6569400>> >>,  \* 2012: a = 0.1072382215478166; v = 0.5176977312965694e-3
    <<5, 20001240, Keep, <<7331, 1436821, 141700>> >>,  \* 2015: a = 0.2582068959496968; v = 0.7331143682101417e-3
    <<5, 52235602, Keep, <<8463, 2328363, 7992800>> >>,  \* 2018: a = 0.4172752955306717; v = 0.8463232836379928e-3
    <<5, 97482549, Keep, <<9031, 1226942, 5399200>> >>,  \* 2021: a = 0.5700366911792503; v = 0.9031122694253992e-3
    <<6, 289767928, 9417550, <<6485, 7784531, 6325700>> >>,  \* 2025: a = 0.9827986018263947; b = 0.1771774022615325; v = 0.6485778453163257e-3
    <<6, 277878520, 18387516, <<7435, 309109, 8236900>> >>,  \* 2029: a = 0.9624249230326228; b = 0.2475716463426288; v = 0.7435030910982369e-3
    <<6, 265193263, 33760351, <<7998, 5278918, 3905400>> >>,  \* 2033: a = 0.9402007994128811; b = 0.3354616289066489; v = 0.7998527891839054e-3
    <<6, 260633171, 30215501, <<8101, 7314974, 6801800>> >>,  \* 2037: a = 0.9320822040143202; b = 0.3173615246611977; v = 0.8101731497468018e-3
    <<6, 245364129, 50190887, <<8483, 3895745, 9433100>> >>,  \* 2041: a = 0.9043674199393299; b = 0.4090268427085357; v = 0.8483389574594331e-3
    <<6, 238293026, 44566681, <<8556, 2992573, 1181200>> >>,  \* 2045: a = 0.8912407560074747; b = 0.3854291150669224; v = 0.8556299257311812e-3
    <<6, 225841606, 72980417, <<8803, 2086797, 3826000>> >>,  \* 2049: a = 0.8676435628462708; b = 0.4932221184851285; v = 0.8803208679738260e-3
    <<6, 220951141, 68697882, <<8811, 481824, 2572000>> >>,  \* 2053: a = 0.8581979986041619; b = 0.4785320675922435; v = 0.8811048182425720e-3
    <<6, 211516414, 60950575, <<8850, 2823412, 6544400>> >>,  \* 2057: a = 0.8396753624049856; b = 0.4507422593157064; v = 0.8850282341265444e-3
    <<6, 200015812, 95162429, <<9021, 3422990, 4065300>> >>,  \* 2061: a = 0.8165288564022188; b = 0.5632123020762100; v = 0.9021342299040653e-3
    <<6, 192743248, 88594966, <<9010, 916771, 508600>> >>,  \* 2065: a = 0.8015469370783529; b = 0.5434303569693900; v = 0.9010091677105086e-3
    <<6, 181284848, 78751325, <<9022, 6929384, 2691500>> >>,  \* 2069: a = 0.7773563069070351; b = 0.5123518486419871; v = 0.9022692938426915e-3
    <<6, 176101319, 122660436, <<9158, 161746, 9346500>> >>,  \* 2073: a = 0.7661621213900394; b = 0.6394279634749102; v = 0.9158016174693465e-3
    <<6, 171169900, 117931383, <<9131, 5780031, 8943500>> >>,  \* 2077: a = 0.7553584143533510; b = 0.6269805509024392; v = 0.9131578003189435e-3
    <<6, 161816481, 109124734, <<9107, 8135794, 8270500>> >>,  \* 2081: a = 0.7344305757559503; b = 0.6031161693096310; v = 0.9107813579482705e-3
    <<6, 148846927, 97254744, <<9105, 7602589, 7012600>> >>   \* 2085: a = 0.7043837184021765; b = 0.5693702498468441; v = 0.9105760258970126e-3
  >>

\* ld1454 (lines 2091-2272): a = b = 0.0, n = 0, then one row per "n = n + gen_oh(...)"
ld1454 ==
  <<
    <<1, Keep, Keep, <<777, 7160743, 2612470>> >>,  \* 2127: v = 0.7777160743261247e-4
    <<3, Keep, Keep, <<7557, 6464130, 470100>> >>,  \* 2129: v = 0.7557646413004701e-3
    <<4, 312850, Keep, <<2841, 6338060, 9061700>> >>,  \* 2132: a = 0.3229290663413854e-1; v = 0.2841633806090617e-3
    <<4, 1937672, Keep, <<4374, 4191270, 5355500>> >>,  \* 2135: a = 0.8036733271462222e-1; v = 0.4374419127053555e-3
    <<4, 5502304, Keep, <<5417, 1747408, 7217200>> >>,  \* 2138: a = 0.1354289960531653; v = 0.5417174740872172e-3
    <<4, 11278743, Keep, <<6148, 8913, 5859300>> >>,  \* 2141: a = 0.1938963861114426; v = 0.6148000891358593e-3
    <<4, 19314339, Keep, <<6664, 3944858, 70500>> >>,  \* 2144: a = 0.2537343715011275; v = 0.6664394485800705e-3
    <<4, 29489405, Keep, <<7025, 393569, 2322000>> >>,  \* 2147: a = 0.3135251434752570; v = 0.7025039356923220e-3
    <<4, 41549989, Keep, <<7268, 5117892, 4962700>> >>,  \* 2150: a = 0.3721558339375338; v = 0.7268511789249627e-3
    <<4, 55130209, Keep, <<7422, 6375342, 862900>> >>,  \* 2153: a = 0.4286809575195696; v = 0.7422637534208629e-3
    <<4, 69769812, Keep, <<7509, 5450358, 4121400>> >>,  \* 2156: a = 0.4822510128282994; v = 0.7509545035841214e-3
    <<4, 84928886, Keep, <<7548, 5350577, 1840100>> >>,  \* 2159: a = 0.5320679333566263; v = 0.7548535057718401e-3
    <<4, 114317720, Keep, <<7554, 889697, 7400100>> >>,  \* 2162: a = 0.6172998195394274; v = 0.7554088969774001e-3
    <<4, 127166856, Keep, <<7553, 1471744, 4280800>> >>,  \* 2165: a = 0.6510679849127481; v = 0.7553147174442808e-3
    <<4, 137796006, Keep, <<7564, 7676532, 9229700>> >>,  \* 2168: a = 0.6777315251687360; v = 0.7564767653292297e-3
    <<4, 145454678, Keep, <<7587, 9918085, 1873000>> >>,  \* 2171: a = 0.6963109410648741; v = 0.7587991808518730e-3
    <<4, 149485690, Keep, <<7608, 2618320, 3302700>> >>,  \* 2174: a = 0.7058935009831749; v = 0.7608261832033027e-3
    <<5, 297338700, Keep, <<4021, 6804478, 7491600>> >>,  \* 2177: a = 0.9955546194091857; v = 0.4021680447874916e-3
    <<5, 284259037, Keep, <<5804, 8717939, 4596400>> >>,  \* 2180: a = 0.9734115901794209; v = 0.5804871793945964e-3
    <<5, 258115483, Keep, <<6792, 1519559, 4515900>> >>,  \* 2183: a = 0.9275693732388626; v = 0.6792151955945159e-3
    <<5, 220233025, Keep, <<7336, 7412112, 8629400>> >>,  \* 2186: a = 0.8568022422795103; v = 0.7336741211286294e-3
    <<5, 174353053, Keep, <<7581, 8663009, 8960800>> >>,  \* 2189: a = 0.7623495553719372; v = 0.7581866300989608e-3
    <<6, 97727453, 57738045, <<7538, 2578598, 74300>> >>,  \* 2193: a = 0.5707522908892223; b = 0.4387028039889501; v = 0.7538257859800743e-3
    <<6, 81009695, 44673522, <<7483, 5172470, 5312300>> >>,  \* 2197: a = 0.5196463388403083; b = 0.3858908414762617; v = 0.7483517247053123e-3
    <<6, 64765357, 32708371, <<7371, 7636611, 1205900>> >>,  \* 2201: a = 0.4646337531215351; b = 0.3301937372343854; v = 0.7371763661112059e-3
    <<6, 49545891, 22283801, <<7183, 4488957, 5693400>> >>,  \* 2205: a = 0.4063901697557691; b = 0.2725423573563777; v = 0.7183448895756934e-3
    <<6, 35838640, 13732512, <<6895, 8155298, 2219100>> >>,  \* 2209: a = 0.3456329466643087; b = 0.2139510237495250; v = 0.6895815529822191e-3
    <<6, 24050395, 7262683, <<6480, 1058017, 9288600>> >>,  \* 2213: a = 0.2831395121050332; b = 0.1555922309786647; v = 0.6480105801792886e-3
    <<6, 14489419, 2936072, <<5897, 5588965, 9463600>> >>,  \* 2217: a = 0.2197682022925330; b = 0.9892878979686097e-1; v = 0.5897558896594636e-3
    <<6, 7344822, 634425, <<5095, 7088492, 4734600>> >>,  \* 2221: a = 0.1564696098650355; b = 0.4598642910675510e-1; v = 0.5095708849247346e-3
    <<6, 108987085, 34204792, <<7536, 9064289, 975500>> >>,  \* 2225: a = 0.6027356673721295; b = 0.3376625140173426; v = 0.7536906428909755e-3
    <<6, 90619114, 23896154, <<7472, 5059655, 7511800>> >>,  \* 2229: a = 0.5496032320255096; b = 0.2822301309727988; v = 0.7472505965575118e-3
    <<6, 72669622, 15169042, <<7343, 171322, 7969800>> >>,  \* 2233: a = 0.4921707755234567; b = 0.2248632342592540; v = 0.7343017132279698e-3
    <<6, 55713380, 8328914, <<7130, 8715821, 7744500>> >>,  \* 2237: a = 0.4309422998598483; b = 0.1666224723456479; v = 0.7130871582177445e-3
    <<6, 40277066, 3544478, <<6817, 220321, 1277600>> >>,  \* 2241: a = 0.3664108182313672; b = 0.1086964901822169; v = 0.6817022032112776e-3
    <<6, 26823692, 827502, <<6380, 9411456, 412100>> >>,  \* 2245: a = 0.2990189057758436; b = 0.5251989784120085e-1; v = 0.6380941145604121e-3
    <<6, 117890702, 15835845, <<7550, 3813779, 2031000>> >>,  \* 2249: a = 0.6268724013144998; b = 0.2297523657550023; v = 0.7550381377920310e-3
    <<6, 97720647, 8907020, <<7478, 6466401, 4480200>> >>,  \* 2253: a = 0.5707324144834607; b = 0.1723080607093800; v = 0.7478646640144802e-3
    <<6, 77918683, 3900431, <<7335, 9187206, 122000>> >>,  \* 2257: a = 0.5096360901960365; b = 0.1140238465390513; v = 0.7335918720601220e-3
    <<6, 59106970, 944675, <<7110, 1205276, 5811800>> >>,  \* 2261: a = 0.4438729938312456; b = 0.5611522095882537e-1; v = 0.7110120527658118e-3
    <<6, 123648371, 4065906, <<7571, 3639786, 8950100>> >>,  \* 2265: a = 0.6419978471082389; b = 0.1164174423140873; v = 0.7571363978689501e-3
    <<6, 101520078, 1008361, <<7489, 9083290, 7923400>> >>   \* 2269: a = 0.5817218061802611; b = 0.5797589531445219e-1; v = 0.7489908329079234e-3
  >>

\* ld1730 (lines 2275-2481): a = b = 0.0, n = 0, then one row per "n = n + gen_oh(...)"
ld1730 ==
  <<
    <<1, Keep, Keep, <<630, 9049437, 4209760>> >>,  \* 2311: v = 0.6309049437420976e-4
    <<2, Keep, Keep, <<6398, 2877055, 7174800>> >>,  \* 2313: v = 0.6398287705571748e-3
    <<3, Keep, Keep, <<6357, 1850735, 3072000>> >>,  \* 2315: v = 0.6357185073530720e-3
    <<4, 245546, Keep, <<2221, 2071621, 8816800>> >>,  \* 2318: a = 0.2860923126194662e-1; v = 0.2221207162188168e-3
    <<4, 1530484, Keep, <<3475, 7840222, 8684800>> >>,  \* 2321: a = 0.7142556767711522e-1; v = 0.3475784022286848e-3
    <<4, 4386491, Keep, <<4350, 7424435, 8980400>> >>,  \* 2324: a = 0.1209199540995559; v = 0.4350742443589804e-3
    <<4, 9068953, Keep, <<4978, 5691365, 2212700>> >>,  \* 2327: a = 0.1738673106594379; v = 0.4978569136522127e-3
    <<4, 15658814, Keep, <<5435, 362219, 9805300>> >>,  \* 2330: a = 0.2284645438467734; v = 0.5435036221998053e-3
    <<4, 24108404, Keep, <<5765, 9133882, 1954200>> >>,  \* 2333: a = 0.2834807671701512; v = 0.5765913388219542e-3
    <<4, 34266714, Keep, <<6001, 2003592, 2600300>> >>,  \* 2336: a = 0.3379680145467339; v = 0.6001200359226003e-3
    <<4, 45896104, Keep, <<6162, 1781727, 1751200>> >>,  \* 2339: a = 0.3911355454819537; v = 0.6162178172717512e-3
    <<4, 58685081, Keep, <<6265, 2181524, 3848500>> >>,  \* 2342: a = 0.4422860353001403; v = 0.6265218152438485e-3
    <<4, 72258960, Keep, <<6323, 9871609, 7421200>> >>,  \* 2345: a = 0.4907781568726057; v = 0.6323987160974212e-3
    <<4, 86188998, Keep, <<6350, 7678515, 4056900>> >>,  \* 2348: a = 0.5360006153211468; v = 0.6350767851540569e-3
    <<4, 113176397, Keep, <<6354, 3627752, 9710700>> >>,  \* 2351: a = 0.6142105973596603; v = 0.6354362775297107e-3
    <<4, 125167685, Keep, <<6352, 3024627, 623500>> >>,  \* 2354: a = 0.6459300387977504; v = 0.6352302462706235e-3
    <<4, 135396834, Keep, <<6358, 1178814, 1797200>> >>,  \* 2357: a = 0.6718056125089225; v = 0.6358117881417972e-3
    <<4, 143281141, Keep, <<6373, 1015903, 1011700>> >>,  \* 2360: a = 0.6910888533186254; v = 0.6373101590310117e-3
    <<4, 148282416, Keep, <<6390, 4289613, 6866500>> >>,  \* 2363: a = 0.7030467416823252; v = 0.6390428961368665e-3
    <<5, 2094156, Keep, <<3186, 9134499, 4657600>> >>,  \* 2366: a = 0.8354951166354646e-1; v = 0.3186913449946576e-3
    <<5, 12609259, Keep, <<4678, 285585, 9171100>> >>,  \* 2369: a = 0.2050143009099486; v = 0.4678028558591711e-3
    <<5, 34074912, Keep, <<5538, 8296975, 9862600>> >>,  \* 2372: a = 0.3370208290706637; v = 0.5538829697598626e-3
    <<5, 65961611, Keep, <<6044, 4759071, 9047600>> >>,  \* 2375: a = 0.4689051484233963; v = 0.6044475907190476e-3
    <<5, 105829432, Keep, <<6313, 5751035, 901200>> >>,  \* 2378: a = 0.5939400424557334; v = 0.6313575103509012e-3
    <<6, 5837935, 503705, <<4078, 6264318, 5563000>> >>,  \* 2382: a = 0.1394983311832261; b = 0.4097581162050343e-1; v = 0.4078626431855630e-3
    <<6, 11619062, 2350730, <<4759, 9330578, 1272500>> >>,  \* 2386: a = 0.1967999180485014; b = 0.8851987391293348e-1; v = 0.4759933057812725e-3
    <<6, 19449155, 5860530, <<5268, 1511864, 1344000>> >>,  \* 2390: a = 0.2546183732548967; b = 0.1397680182969819; v = 0.5268151186413440e-3
    <<6, 29227187, 11168361, <<5643, 485605, 731600>> >>,  \* 2394: a = 0.3121281074713875; b = 0.1929452542226526; v = 0.5643048560507316e-3
    <<6, 40759370, 18271567, <<5914, 5010766, 1307300>> >>,  \* 2398: a = 0.3685981078502492; b = 0.2467898337061562; v = 0.5914501076613073e-3
    <<6, 53774179, 27055903, <<6104, 5612578, 7419500>> >>,  \* 2402: a = 0.4233760321547856; b = 0.3003104124785409; v = 0.6104561257874195e-3
    <<6, 67934856, 37312507, <<6230, 2528607, 780600>> >>,  \* 2406: a = 0.4758671236059246; b = 0.3526684328175033; v = 0.6230252860707806e-3
    <<6, 82850706, 48750145, <<6305, 6187617, 6079600>> >>,  \* 2410: a = 0.5255178579796463; b = 0.4031134861145713; v = 0.6305618761760796e-3
    <<6, 98087451, 61004781, <<6343, 927675, 9788900>> >>,  \* 2414: a = 0.5718025633734589; b = 0.4509426448342351; v = 0.6343092767597889e-3
    <<6, 21658743, 665897, <<5176, 2689457, 3782600>> >>,  \* 2418: a = 0.2686927772723415; b = 0.4711322502423248e-1; v = 0.5176268945737826e-3
    <<6, 32789043, 2872086, <<5564, 8403133, 1369200>> >>,  \* 2422: a = 0.3306006819904809; b = 0.9784487303942695e-1; v = 0.5564840313313692e-3
    <<6, 45744893, 6798650, <<5856, 4266710, 3898000>> >>,  \* 2426: a = 0.3904906850594983; b = 0.1505395810025273; v = 0.5856426671038980e-3
    <<6, 60210070, 12481473, <<6066, 3869257, 7709100>> >>,  \* 2430: a = 0.4479957951904390; b = 0.2039728156296050; v = 0.6066386925777091e-3
    <<6, 75814505, 19838299, <<6208, 8249622, 3445800>> >>,  \* 2434: a = 0.5027076848919780; b = 0.2571529941121107; v = 0.6208824962234458e-3
    <<6, 92144198, 28684943, <<6296, 3142978, 2290700>> >>,  \* 2438: a = 0.5542087392260217; b = 0.3092191375815670; v = 0.6296314297822907e-3
    <<6, 108751936, 38746357, <<6340, 4237567, 9185900>> >>,  \* 2442: a = 0.6020850887375187; b = 0.3593807506130276; v = 0.6340423756791859e-3
    <<6, 48477616, 769138, <<5829, 6276771, 734200>> >>,  \* 2446: a = 0.4019851409179594; b = 0.5063389934378671e-1; v = 0.5829627677107342e-3
    <<6, 64466767, 3197687, <<6048, 6933760, 8111000>> >>,  \* 2450: a = 0.4635614567449800; b = 0.1032422269160612; v = 0.6048693376081110e-3
    <<6, 81615616, 7360095, <<6202, 3623177, 3246100>> >>,  \* 2454: a = 0.5215860931591575; b = 0.1566322094006254; v = 0.6202362317732461e-3
    <<6, 99470688, 13205855, <<6299, 53284, 377900>> >>,  \* 2458: a = 0.5758202499099271; b = 0.2098082827491099; v = 0.6299005328403779e-3
    <<6, 117558807, 20574719, <<6347, 7223906, 935300>> >>,  \* 2462: a = 0.6259893683876795; b = 0.2618824114553391; v = 0.6347722390609353e-3
    <<6, 84709256, 831052, <<6203, 7789812, 3883400>> >>,  \* 2466: a = 0.5313795124811891; b = 0.5263245019338556e-1; v = 0.6203778981238834e-3
    <<6, 104193590, 3377543, <<6308, 4146712, 3997900>> >>,  \* 2470: a = 0.5893317955931995; b = 0.1061059730982005; v = 0.6308414671239979e-3
    <<6, 123889925, 7624149, <<6362, 7064669, 5949800>> >>,  \* 2474: a = 0.6426246321215801; b = 0.1594171564034221; v = 0.6362706466959498e-3
    <<6, 127214695, 860213, <<6375, 4141703, 3323300>> >>   \* 2478: a = 0.6511904367376113; b = 0.5354789536565540e-1; v = 0.6375414170333233e-3
  >>

\* ld2030 (lines 2484-2717): a = b = 0.0, n = 0, then one row per "n = n + gen_oh(...)"
ld2030 ==
  <<
    <<1, Keep, Keep, <<465, 6031899, 1974310>> >>,  \* 2520: v = 0.4656031899197431e-4
    <<3, Keep, Keep, <<5421, 5491952, 9550700>> >>,  \* 2522: v = 0.5421549195295507e-3
    <<4, 193675, Keep, <<1778, 5221333, 4655300>> >>,  \* 2525: a = 0.2540835336814348e-1; v = 0.1778522133346553e-3
    <<4, 1228540, Keep, <<2811, 3254056, 8279600>> >>,  \* 2528: a = 0.6399322800504915e-1; v = 0.2811325405682796e-3
    <<4, 3552991, Keep, <<3548, 8963126, 3145900>> >>,  \* 2531: a = 0.1088269469804125; v = 0.3548896312631459e-3
    <<4, 7401020, Keep, <<4090, 3108971, 7336400>> >>,  \* 2534: a = 0.1570670798818287; v = 0.4090310897173364e-3
    <<4, 12869160, Keep, <<4493, 2861341, 6996500>> >>,  \* 2537: a = 0.2071163932282514; v = 0.4493286134169965e-3
    <<4, 19952393, Keep, <<4793, 7284479, 6272300>> >>,  \* 2540: a = 0.2578914044450844; v = 0.4793728447962723e-3
    <<4, 28564403, Keep, <<5015, 4153191, 6426500>> >>,  \* 2543: a = 0.3085687558169623; v = 0.5015415319164265e-3
    <<4, 38550646, Keep, <<5175, 1273726, 7793700>> >>,  \* 2546: a = 0.3584719706267024; v = 0.5175127372677937e-3
    <<4, 49698011, Keep, <<5285, 5222620, 8101900>> >>,  \* 2549: a = 0.4070135594428709; v = 0.5285522262081019e-3
    <<4, 61742726, Keep, <<5356, 8327037, 1396200>> >>,  \* 2552: a = 0.4536618626222638; v = 0.5356832703713962e-3
    <<4, 74377169, Keep, <<5397, 9147361, 7517000>> >>,  \* 2555: a = 0.4979195686463577; v = 0.5397914736175170e-3
    <<4, 87255777, Keep, <<5416, 8994415, 9993000>> >>,  \* 2558: a = 0.5393075111126999; v = 0.5416899441599930e-3
    <<4, 112202339, Keep, <<5419, 3084768, 8993800>> >>,  \* 2561: a = 0.6115617676843916; v = 0.5419308476889938e-3
    <<4, 123430058, Keep, <<5416, 9369020, 3059600>> >>,  \* 2564: a = 0.6414308435160159; v = 0.5416936902030596e-3
    <<4, 133230663, Keep, <<5419, 5443387, 316400>> >>,  \* 2567: a = 0.6664099412721607; v = 0.5419544338703164e-3
    <<4, 141144301, Keep, <<5428, 9836566, 3097500>> >>,  \* 2570: a = 0.6859161771214913; v = 0.5428983656630975e-3
    <<4, 146732397, Keep, <<5442, 2865000, 9819300>> >>,  \* 2573: a = 0.6993625593503890; v = 0.5442286500098193e-3
    <<4, 149632201, Keep, <<5452, 2503450, 5730100>> >>,  \* 2576: a = 0.7062393387719380; v = 0.5452250345057301e-3
    <<5, 1678076, Keep, <<2568, 24977, 2853000>> >>,  \* 2579: a = 0.7479028168349763e-1; v = 0.2568002497728530e-3
    <<5, 10255861, Keep, <<3827, 2117002, 9214500>> >>,  \* 2582: a = 0.1848951153969366; v = 0.3827211700292145e-3
    <<5, 28082154, Keep, <<4579, 4915619, 1782400>> >>,  \* 2585: a = 0.3059529066581305; v = 0.4579491561917824e-3
    <<5, 55097973, Keep, <<5042, 39690, 8357400>> >>,  \* 2588: a = 0.4285556101021362; v = 0.5042003969083574e-3
    <<5, 89721964, Keep, <<5312, 7088899, 7602500>> >>,  \* 2591: a = 0.5468758653496526; v = 0.5312708889976025e-3
    <<5, 129330055, Keep, <<5438, 4017907, 4711700>> >>,  \* 2594: a = 0.6565821978343439; v = 0.5438401790747117e-3
    <<6, 4716807, 406695, <<3316, 418731, 9734400>> >>,  \* 2598: a = 0.1253901572367117; b = 0.3681917226439641e-1; v = 0.3316041873197344e-3
    <<6, 9459561, 1911603, <<3899, 1135671, 5377100>> >>,  \* 2602: a = 0.1775721510383941; b = 0.7982487607213301e-1; v = 0.3899113567153771e-3
    <<6, 15948666, 4797950, <<4343, 3433272, 130900>> >>,  \* 2606: a = 0.2305693358216114; b = 0.1264640966592335; v = 0.4343343327201309e-3
    <<6, 24137245, 9204157, <<4679, 4152623, 1891900>> >>,  \* 2610: a = 0.2836502845992063; b = 0.1751585683418957; v = 0.4679415262318919e-3
    <<6, 33904992, 15160457, <<4930, 8479816, 3103100>> >>,  \* 2614: a = 0.3361794746232590; b = 0.2247995907632670; v = 0.4930847981631031e-3
    <<6, 45069644, 22610004, <<5115, 318675, 4009100>> >>,  \* 2618: a = 0.3875979172264824; b = 0.2745299257422246; v = 0.5115031867540091e-3
    <<6, 57396135, 31422340, <<5245, 2171484, 5736700>> >>,  \* 2622: a = 0.4374019316999074; b = 0.3236373482441118; v = 0.5245217148457367e-3
    <<6, 70604632, 41402959, <<5332, 414998, 9532100>> >>,  \* 2626: a = 0.4851275843340022; b = 0.3714967859436741; v = 0.5332041499895321e-3
    <<6, 84377894, 52300734, <<5384, 5831260, 2154200>> >>,  \* 2630: a = 0.5303391803806868; b = 0.4175353646321745; v = 0.5384583126021542e-3
    <<6, 98368009, 63813968, <<5411, 672107, 9885200>> >>,  \* 2634: a = 0.5726197380596287; b = 0.4612084406355461; v = 0.5411067210798852e-3
    <<6, 17736879, 543927, <<4259, 7973914, 6871400>> >>,  \* 2638: a = 0.2431520732564863; b = 0.4258040133043952e-1; v = 0.4259797391468714e-3
    <<6, 27037756, 2360001, <<4604, 9313684, 6002100>> >>,  \* 2642: a = 0.3002096800895869; b = 0.8869424306722721e-1; v = 0.4604931368460021e-3
    <<6, 37989929, 5620936, <<4871, 8148782, 5520200>> >>,  \* 2646: a = 0.3558554457457432; b = 0.1368811706510655; v = 0.4871814878255202e-3
    <<6, 50375465, 10387060, <<5072, 2429100, 7488500>> >>,  \* 2650: a = 0.4097782537048887; b = 0.1860739985015033; v = 0.5072242910074885e-3
    <<6, 63931720, 16627268, <<5217, 698452, 3535000>> >>,  \* 2654: a = 0.4616337666067458; b = 0.2354235077395853; v = 0.5217069845235350e-3
    <<6, 78357978, 24232170, <<5315, 7859662, 8031000>> >>,  \* 2658: a = 0.5110707008417874; b = 0.2842074921347011; v = 0.5315785966280310e-3
    <<6, 93322684, 33023080, <<5376, 8337087, 5890500>> >>,  \* 2662: a = 0.5577415286163795; b = 0.3317784414984102; v = 0.5376833708758905e-3
    <<6, 108470687, 42758648, <<5408, 320920, 6952100>> >>,  \* 2666: a = 0.6013060431366950; b = 0.3775299002040700; v = 0.5408032092069521e-3
    <<6, 40221873, 634626, <<4842, 7449179, 486600>> >>,  \* 2670: a = 0.3661596767261781; b = 0.4599367887164592e-1; v = 0.4842744917904866e-3
    <<6, 53872604, 2653561, <<5048, 9260761, 8813000>> >>,  \* 2674: a = 0.4237633153506581; b = 0.9404893773654421e-1; v = 0.5048926076188130e-3
    <<6, 68726820, 6146521, <<5202, 6079804, 7837300>> >>,  \* 2678: a = 0.4786328454658452; b = 0.1431377109091971; v = 0.5202607980478373e-3
    <<6, 84451424, 11107480, <<5309, 9323883, 2574300>> >>,  \* 2682: a = 0.5305702076789774; b = 0.1924186388843570; v = 0.5309932388325743e-3
    <<6, 100691710, 17447313, <<5377, 4197708, 9520800>> >>,  \* 2686: a = 0.5793436224231788; b = 0.2411590944775190; v = 0.5377419770895208e-3
    <<6, 117077614, 25002081, <<5411, 6963316, 7771700>> >>,  \* 2690: a = 0.6247069017094747; b = 0.2886871491583605; v = 0.5411696331677717e-3
    <<6, 71276856, 692635, <<5197, 9962932, 8242000>> >>,  \* 2694: a = 0.4874315552535204; b = 0.4804978774953206e-1; v = 0.5197996293282420e-3
    <<6, 88367971, 2832519, <<5311, 1208366, 2294500>> >>,  \* 2698: a = 0.5427337322059053; b = 0.9716857199366665e-1; v = 0.5311120836622945e-3
    <<6, 105975354, 6440484, <<5384, 3093199, 5695100>> >>,  \* 2702: a = 0.5943493747246700; b = 0.1465205839795055; v = 0.5384309319956951e-3
    <<6, 123699822, 11449418, <<5421, 8595040, 5188600>> >>,  \* 2706: a = 0.6421314033564943; b = 0.1953579449803574; v = 0.5421859504051886e-3
    <<6, 108743898, 725122, <<5390, 9483550, 4631400>> >>,  \* 2710: a = 0.6020628374713980; b = 0.4916375015738108e-1; v = 0.5390948355046314e-3
    <<6, 127892241, 2917547, <<5433, 3127050, 2784500>> >>   \* 2714: a = 0.6529222529856881; b = 0.9861621540127005e-1; v = 0.5433312705027845e-3
  >>

\* ld2354 (lines 2720-2982): a = b = 0.0, n = 0, then one row per "n = n + gen_oh(...)"
ld2354 ==
  <<
    <<1, Keep, Keep, <<392, 2616270, 6652920>> >>,  \* 2756: v = 0.3922616270665292e-4
    <<2, Keep, Keep, <<4703, 8317508, 5442400>> >>,  \* 2758: v = 0.4703831750854424e-3
    <<3, Keep, Keep, <<4678, 2028012, 8213600>> >>,  \* 2760: v = 0.4678202801282136e-3
    <<4, 157326, Keep, <<1437, 8322289, 7990000>> >>,  \* 2763: a = 0.2290024646530589e-1; v = 0.1437832228979900e-3
    <<4, 1001935, Keep, <<2303, 5724935, 7764400>> >>,  \* 2766: a = 0.5779086652271284e-1; v = 0.2303572493577644e-3
    <<4, 2918424, Keep, <<2933, 1107524, 4745400>> >>,  \* 2769: a = 0.9863103576375984e-1; v = 0.2933110752447454e-3
    <<4, 6118887, Keep, <<3402, 9059983, 5983800>> >>,  \* 2772: a = 0.1428155792982185; v = 0.3402905998359838e-3
    <<4, 10704715, Keep, <<3759, 1384668, 7037200>> >>,  \* 2775: a = 0.1888978116601463; v = 0.3759138466870372e-3
    <<4, 16695941, Keep, <<4030, 6384478, 9979800>> >>,  \* 2778: a = 0.2359091682970210; v = 0.4030638447899798e-3
    <<4, 24047570, Keep, <<4236, 5914322, 4221100>> >>,  \* 2781: a = 0.2831228833706171; v = 0.4236591432242211e-3
    <<4, 32660019, Keep, <<4390, 5226569, 4674600>> >>,  \* 2784: a = 0.3299495857966693; v = 0.4390522656946746e-3
    <<4, 42386653, Keep, <<4502, 5234666, 2624700>> >>,  \* 2787: a = 0.3758840802660796; v = 0.4502523466626247e-3
    <<4, 53039814, Keep, <<4580, 5777277, 8354100>> >>,  \* 2790: a = 0.4204751831009480; v = 0.4580577727783541e-3
    <<4, 64395972, Keep, <<4631, 3916166, 1589900>> >>,  \* 2793: a = 0.4633068518751051; v = 0.4631391616615899e-3
    <<4, 76200248, Keep, <<4660, 9289536, 9867600>> >>,  \* 2796: a = 0.5039849474507313; v = 0.4660928953698676e-3
    <<4, 88170368, Keep, <<4674, 7518079, 3695300>> >>,  \* 2799: a = 0.5421265793440747; v = 0.4674751807936953e-3
    <<4, 111361526, Keep, <<4676, 4149039, 3292000>> >>,  \* 2802: a = 0.6092660230557310; v = 0.4676414903932920e-3
    <<4, 121908649, Keep, <<4674, 864923, 4787000>> >>,  \* 2805: a = 0.6374654204984869; v = 0.4674086492347870e-3
    <<4, 131280092, Keep, <<4674, 9285394, 8320700>> >>,  \* 2808: a = 0.6615136472609892; v = 0.4674928539483207e-3
    <<4, 139107351, Keep, <<4680, 7489796, 8644700>> >>,  \* 2811: a = 0.6809487285958127; v = 0.4680748979686447e-3
    <<4, 145031794, Keep, <<4690, 4498063, 8904000>> >>,  \* 2814: a = 0.6952980021665196; v = 0.4690449806389040e-3
    <<4, 148737414, Keep, <<4699, 8770758, 6081800>> >>,  \* 2817: a = 0.7041245497695400; v = 0.4699877075860818e-3
    <<5, 1364459, Keep, <<2099, 9422810, 6917600>> >>,  \* 2820: a = 0.6744033088306065e-1; v = 0.2099942281069176e-3
    <<5, 8453945, Keep, <<3172, 2691507, 1280400>> >>,  \* 2823: a = 0.1678684485334166; v = 0.3172269150712804e-3
    <<5, 23411916, Keep, <<3832, 513585, 4652300>> >>,  \* 2826: a = 0.2793559049539613; v = 0.3832051358546523e-3
    <<5, 46458913, Keep, <<4252, 1938181, 4698500>> >>,  \* 2829: a = 0.3935264218057639; v = 0.4252193818146985e-3
    <<5, 76587188, Keep, <<4513, 8079637, 5500000>> >>,  \* 2832: a = 0.5052629268232558; v = 0.4513807963755000e-3
    <<5, 111919522, Keep, <<4657, 7974691, 1417800>> >>,  \* 2835: a = 0.6107905315437531; v = 0.4657797469114178e-3
    <<6, 3865227, 333058, <<2733, 3628005, 2283600>> >>,  \* 2839: a = 0.1135081039843524; b = 0.3331954884662588e-1; v = 0.2733362800522836e-3
    <<6, 7804016, 1575643, <<3235, 4853684, 6355900>> >>,  \* 2843: a = 0.1612866626099378; b = 0.7247167465436538e-1; v = 0.3235485368463559e-3
    <<6, 13239912, 3978127, <<3624, 9087260, 1345300>> >>,  \* 2847: a = 0.2100786550168205; b = 0.1151539110849745; v = 0.3624908726013453e-3
    <<6, 20159778, 7675115, <<3925, 5400707, 1282800>> >>,  \* 2851: a = 0.2592282009459942; b = 0.1599491097143677; v = 0.3925540070712828e-3
    <<6, 28491375, 12714737, <<4156, 1297811, 1623500>> >>,  \* 2855: a = 0.3081740561320203; b = 0.2058699956028027; v = 0.4156129781116235e-3
    <<6, 38112485, 19075777, <<4330, 6449846, 2326300>> >>,  \* 2859: a = 0.3564289781578164; b = 0.2521624953502911; v = 0.4330644984623263e-3
    <<6, 48857894, 26678596, <<4459, 6777259, 2131200>> >>,  \* 2863: a = 0.4035587288240703; b = 0.2982090785797674; v = 0.4459677725921312e-3
    <<6, 60525330, 35392772, <<4551, 5930044, 5679500>> >>,  \* 2867: a = 0.4491671196373903; b = 0.3434762087235733; v = 0.4551593004456795e-3
    <<6, 72880828, 45042954, <<4613, 3414627, 4991800>> >>,  \* 2871: a = 0.4928854782917489; b = 0.3874831357203437; v = 0.4613341462749918e-3
    <<6, 85663683, 55413637, <<4651, 196182, 6980600>> >>,  \* 2875: a = 0.5343646791958988; b = 0.4297814821746926; v = 0.4651019618269806e-3
    <<6, 98590971, 66253145, <<4670, 2495361, 62500>> >>,  \* 2879: a = 0.5732683216530990; b = 0.4699402260943537; v = 0.4670249536100625e-3
    <<6, 14707136, 450144, <<3549, 5555764, 4170800>> >>,  \* 2883: a = 0.2214131583218986; b = 0.3873602040643895e-1; v = 0.3549555576441708e-3
    <<6, 22552344, 1963198, <<3856, 1082452, 4901000>> >>,  \* 2887: a = 0.2741796504750071; b = 0.8089496256902013e-1; v = 0.3856108245249010e-3
    <<6, 31878838, 4700500, <<4098, 6228457, 5688200>> >>,  \* 2891: a = 0.3259797439149485; b = 0.1251732177620872; v = 0.4098622845756882e-3
    <<6, 42535641, 8733972, <<4286, 3286042, 6895000>> >>,  \* 2895: a = 0.3765441148826891; b = 0.1706260286403185; v = 0.4286328604268950e-3
    <<6, 54334826, 14063171, <<4427, 8021989, 9394500>> >>,  \* 2899: a = 0.4255773574530558; b = 0.2165115147300408; v = 0.4427802198993945e-3
    <<6, 67056140, 20626065, <<4530, 4735114, 8856100>> >>,  \* 2903: a = 0.4727795117058430; b = 0.2622089812225259; v = 0.4530473511488561e-3
    <<6, 80452044, 28306418, <<4600, 8054757, 313800>> >>,  \* 2907: a = 0.5178546895819012; b = 0.3071721431296201; v = 0.4600805475703138e-3
    <<6, 94252823, 36939222, <<4644, 5990599, 5801700>> >>,  \* 2911: a = 0.5605141192097460; b = 0.3508998998801138; v = 0.4644599059958017e-3
    <<6, 108171548, 46314916, <<4667, 2744557, 1250800>> >>,  \* 2915: a = 0.6004763319352512; b = 0.3929160876166931; v = 0.4667274455712508e-3
    <<6, 33724661, 529846, <<4069, 3605180, 2035600>> >>,  \* 2919: a = 0.3352842634946949; b = 0.4202563457288019e-1; v = 0.4069360518020356e-3
    <<6, 45442330, 2226190, <<4260, 4428199, 1919500>> >>,  \* 2923: a = 0.3891971629814670; b = 0.8614309758870850e-1; v = 0.4260442819919195e-3
    <<6, 58341008, 5183738, <<4408, 6785080, 2906300>> >>,  \* 2927: a = 0.4409875565542281; b = 0.1314500879380001; v = 0.4408678508029063e-3
    <<6, 72173928, 9421969, <<4518, 7481155, 4859700>> >>,  \* 2931: a = 0.4904893058592484; b = 0.1772189657383859; v = 0.4518748115548597e-3
    <<6, 86673685, 14895657, <<4595, 5648753, 7511600>> >>,  \* 2935: a = 0.5375056138769549; b = 0.2228277110050294; v = 0.4595564875375116e-3
    <<6, 101556298, 21501877, <<4643, 9887743, 1584600>> >>,  \* 2939: a = 0.5818255708669969; b = 0.2677179935014386; v = 0.4643988774315846e-3
    <<6, 116525993, 29084917, <<4668, 8274916, 4694600>> >>,  \* 2943: a = 0.6232334858144959; b = 0.3113675035544165; v = 0.4668827491646946e-3
    <<6, 60466436, 583221, <<4400, 5418237, 4197300>> >>,  \* 2947: a = 0.4489485354492058; b = 0.4409162378368174e-1; v = 0.4400541823741973e-3
    <<6, 75454794, 2397177, <<4514, 5128901, 9379700>> >>,  \* 2951: a = 0.5015136875933150; b = 0.8939009917748489e-1; v = 0.4514512890193797e-3
    <<6, 91123301, 5482139, <<4596, 1986273, 4754900>> >>,  \* 2955: a = 0.5511300550512623; b = 0.1351806029383365; v = 0.4596198627347549e-3
    <<6, 107163561, 9810610, <<4648, 6590168, 178100>> >>,  \* 2959: a = 0.5976720409858000; b = 0.1808370355053196; v = 0.4648659016801781e-3
    <<6, 123262622, 15293690, <<4675, 5020171, 5767300>> >>,  \* 2963: a = 0.6409956378989354; b = 0.2257852192301602; v = 0.4675502017157673e-3
    <<6, 93450128, 616218, <<4598, 4944764, 5552300>> >>,  \* 2967: a = 0.5581222330827514; b = 0.4532173421637160e-1; v = 0.4598494476455523e-3
    <<6, 110706158, 2493858, <<4654, 9169551, 5204800>> >>,  \* 2971: a = 0.6074705984161695; b = 0.9117488031840314e-1; v = 0.4654916955152048e-3
    <<6, 128011754, 5624900, <<4684, 7097795, 513700>> >>,  \* 2975: a = 0.6532272537379033; b = 0.1369294213140155; v = 0.4684709779505137e-3
    <<6, 130472638, 632016, <<4691, 4455391, 698600>> >>   \* 2979: a = 0.6594761494500487; b = 0.4589901487275583e-1; v = 0.4691445539106986e-3
  >>

\* ld2702 (lines 2985-3278): a = b = 0.0, n = 0, then one row per "n = n + gen_oh(...)"
ld2702 ==
  <<
    <<1, Keep, Keep, <<299, 8675149, 8881610>> >>,  \* 3021: v = 0.2998675149888161e-4
    <<3, Keep, Keep, <<4077, 8605294, 9535500>> >>,  \* 3023: v = 0.4077860529495355e-3
    <<4, 127996, Keep, <<1185, 3491925, 2066700>> >>,  \* 3026: a = 0.2065562538818703e-1; v = 0.1185349192520667e-3
    <<4, 827164, Keep, <<1913, 4086434, 2575100>> >>,  \* 3029: a = 0.5250918173022379e-1; v = 0.1913408643425751e-3
    <<4, 2426481, Keep, <<2452, 8865772, 989700>> >>,  \* 3032: a = 0.8993480082038376e-1; v = 0.2452886577209897e-3
    <<4, 5117095, Keep, <<2862, 4081832, 8870200>> >>,  \* 3035: a = 0.1306023924436019; v = 0.2862408183288702e-3
    <<4, 9000100, Keep, <<3178, 322582, 5735700>> >>,  \* 3038: a = 0.1732060388531418; v = 0.3178032258257357e-3
    <<4, 14110132, Keep, <<3422, 9456676, 3369000>> >>,  \* 3041: a = 0.2168727084820249; v = 0.3422945667633690e-3
    <<4, 20428914, Keep, <<3612, 7905202, 3592200>> >>,  \* 3044: a = 0.2609528309173586; v = 0.3612790520235922e-3
    <<4, 27893830, Keep, <<3758, 6382298, 1852100>> >>,  \* 3047: a = 0.3049252927938952; v = 0.3758638229818521e-3
    <<4, 36403985, Keep, <<3868, 7117988, 5995300>> >>,  \* 3050: a = 0.3483484138084404; v = 0.3868711798859953e-3
    <<4, 45824932, Keep, <<3949, 4299331, 8993800>> >>,  \* 3053: a = 0.3908321549106406; v = 0.3949429933189938e-3
    <<4, 55992645, Keep, <<4006, 681075, 4115600>> >>,  \* 3056: a = 0.4320210071894814; v = 0.4006068107541156e-3
    <<4, 66717011, Keep, <<4043, 1921496, 7272300>> >>,  \* 3059: a = 0.4715824795890053; v = 0.4043192149672723e-3
    <<4, 77784927, Keep, <<4064, 9474958, 807800>> >>,  \* 3062: a = 0.5091984794078453; v = 0.4064947495808078e-3
    <<4, 88963029, Keep, <<4075, 2456198, 1315200>> >>,  \* 3065: a = 0.5445580145650803; v = 0.4075245619813152e-3
    <<4, 110628530, Keep, <<4076, 4235408, 9356600>> >>,  \* 3068: a = 0.6072575796841768; v = 0.4076423540893566e-3
    <<4, 120567191, Keep, <<4074, 2808622, 5155500>> >>,  \* 3071: a = 0.6339484505755803; v = 0.4074280862251555e-3
    <<4, 129523015, Keep, <<4074, 1637560, 1224400>> >>,  \* 3074: a = 0.6570718257486958; v = 0.4074163756012244e-3
    <<4, 137196545, Keep, <<4077, 6477950, 7124600>> >>,  \* 3077: a = 0.6762557330090709; v = 0.4077647795071246e-3
    <<4, 143292468, Keep, <<4084, 5175527, 8253000>> >>,  \* 3080: a = 0.6911161696923790; v = 0.4084517552782530e-3
    <<4, 147539855, Keep, <<4092, 4684592, 2405200>> >>,  \* 3083: a = 0.7012841911659961; v = 0.4092468459224052e-3
    <<4, 149723993, Keep, <<4097, 8726872, 4090600>> >>,  \* 3086: a = 0.7064559272410020; v = 0.4097872687240906e-3
    <<5, 1124938, Keep, <<1738, 9868117, 4502800>> >>,  \* 3089: a = 0.6123554989894765e-1; v = 0.1738986811745028e-3
    <<5, 7050914, Keep, <<2659, 6160452, 8019100>> >>,  \* 3092: a = 0.1533070348312393; v = 0.2659616045280191e-3
    <<5, 19720790, Keep, <<3240, 5960081, 7153300>> >>,  \* 3095: a = 0.2563902605244206; v = 0.3240596008171533e-3
    <<5, 39516479, Keep, <<3621, 1959644, 3294300>> >>,  \* 3098: a = 0.3629346991663361; v = 0.3621195964432943e-3
    <<5, 65818162, Keep, <<3868, 8383307, 6053900>> >>,  \* 3101: a = 0.4683949968987538; v = 0.3868838330760539e-3
    <<5, 97281281, Keep, <<4018, 9115326, 9311100>> >>,  \* 3104: a = 0.5694479240657952; v = 0.4018911532693111e-3
    <<5, 132048395, Keep, <<4089, 9294329, 8325200>> >>,  \* 3107: a = 0.6634465430993955; v = 0.4089929432983252e-3
    <<6, 3207211, 276254, <<2279, 9075277, 640900>> >>,  \* 3111: a = 0.1033958573552305; b = 0.3034544009063584e-1; v = 0.2279907527706409e-3
    <<6, 6513796, 1314257, <<2715, 2054905, 7889700>> >>,  \* 3115: a = 0.1473521412414395; b = 0.6618803044247135e-1; v = 0.2715205490578897e-3
    <<6, 11111703, 3335475, <<3057, 9178967, 397600>> >>,  \* 3119: a = 0.1924552158705967; b = 0.1054431128987715; v = 0.3057917896703976e-3
    <<6, 17008831, 6467394, <<3326, 9130524, 5255500>> >>,  \* 3123: a = 0.2381094362890328; b = 0.1468263551238858; v = 0.3326913052452555e-3
    <<6, 24164804, 10767233, <<3537, 3347118, 9003700>> >>,  \* 3127: a = 0.2838121707936760; b = 0.1894486108187886; v = 0.3537334711890037e-3
    <<6, 32498424, 16236051, <<3700, 5675007, 8312900>> >>,  \* 3131: a = 0.3291323133373415; b = 0.2326374238761579; v = 0.3700567500783129e-3
    <<6, 41893197, 22827732, <<3825, 2453725, 8912200>> >>,  \* 3135: a = 0.3736896978741460; b = 0.2758485808485768; v = 0.3825245372589122e-3
    <<6, 52201885, 30455216, <<3918, 1251715, 1829600>> >>,  \* 3139: a = 0.4171406040760013; b = 0.3186179331996921; v = 0.3918125171518296e-3
    <<6, 63250520, 38995209, <<3984, 7204199, 3757900>> >>,  \* 3143: a = 0.4591677985256915; b = 0.3605329796303794; v = 0.3984720419937579e-3
    <<6, 74842098, 48291977, <<4029, 7460033, 3821100>> >>,  \* 3147: a = 0.4994733831718418; b = 0.4012147253586509; v = 0.4029746003338211e-3
    <<6, 86759999, 58160549, <<4057, 4286321, 5662700>> >>,  \* 3151: a = 0.5377731830445096; b = 0.4403050025570692; v = 0.4057428632156627e-3
    <<6, 98771103, 68389439, <<4071, 7192741, 1485700>> >>,  \* 3155: a = 0.5737917830001331; b = 0.4774565904277483; v = 0.4071719274114857e-3
    <<6, 12330123, 376824, <<2990, 2369506, 6411900>> >>,  \* 3159: a = 0.2027323586271389; b = 0.3544122504976147e-1; v = 0.2990236950664119e-3
    <<6, 19004997, 1650937, <<3262, 9517342, 1287800>> >>,  \* 3163: a = 0.2516942375187273; b = 0.7418304388646328e-1; v = 0.3262951734212878e-3
    <<6, 27004104, 3970970, <<3482, 6346082, 4241300>> >>,  \* 3167: a = 0.3000227995257181; b = 0.1150502745727186; v = 0.3482634608242413e-3
    <<6, 36222845, 7413207, <<3656, 5966817, 89200>> >>,  \* 3171: a = 0.3474806691046342; b = 0.1571963371209364; v = 0.3656596681700892e-3
    <<6, 46525970, 11995583, <<3791, 7404677, 9421800>> >>,  \* 3175: a = 0.3938103180359209; b = 0.1999631877247100; v = 0.3791740467794218e-3
    <<6, 57750984, 17686622, <<3894, 344501, 5690500>> >>,  \* 3179: a = 0.4387519590455703; b = 0.2428073457846535; v = 0.3894034450156905e-3
    <<6, 69711775, 24411555, <<3968, 6002455, 837100>> >>,  \* 3183: a = 0.4820503960077787; b = 0.2852575132906155; v = 0.3968600245508371e-3
    <<6, 82202288, 32056812, <<4019, 9313514, 2005000>> >>,  \* 3187: a = 0.5234573778475101; b = 0.3268884208674639; v = 0.4019931351420050e-3
    <<6, 95000145, 40473521, <<4052, 1088012, 7859900>> >>,  \* 3191: a = 0.5627318647235282; b = 0.3673033321675939; v = 0.4052108801278599e-3
    <<6, 107870101, 49480318, <<4068, 9786139, 4093400>> >>,  \* 3195: a = 0.5996390607156954; b = 0.4061211551830290; v = 0.4068978613940934e-3
    <<6, 28547617, 447017, <<3454, 2753513, 1970400>> >>,  \* 3199: a = 0.3084780753791947; b = 0.3860125523100059e-1; v = 0.3454275351319704e-3
    <<6, 38664047, 1886042, <<3629, 9635370, 792000>> >>,  \* 3203: a = 0.3589988275920223; b = 0.7928938987104867e-1; v = 0.3629963537007920e-3
    <<6, 49905629, 4411303, <<3770, 1872338, 8987300>> >>,  \* 3207: a = 0.4078628415881973; b = 0.1212614643030087; v = 0.3770187233889873e-3
    <<6, 62088044, 8056709, <<3878, 6086136, 9437800>> >>,  \* 3211: a = 0.4549287258889735; b = 0.1638770827382693; v = 0.3878608613694378e-3
    <<6, 75008356, 12804644, <<3959, 652702, 2127400>> >>,  \* 3215: a = 0.5000278512957279; b = 0.2065965798260176; v = 0.3959065270221274e-3
    <<6, 88447697, 18591880, <<4015, 2869754, 6357000>> >>,  \* 3219: a = 0.5429785044928199; b = 0.2489436378852235; v = 0.4015286975463570e-3
    <<6, 102174582, 25313787, <<4050, 8667856, 1471700>> >>,  \* 3223: a = 0.5835939850491711; b = 0.2904811368946891; v = 0.4050866785614717e-3
    <<6, 115948431, 32827440, <<4069, 3201850, 5191300>> >>,  \* 3227: a = 0.6216870353444856; b = 0.3307941957666609; v = 0.4069320185051913e-3
    <<6, 51695010, 495685, <<3760, 1209640, 6276300>> >>,  \* 3231: a = 0.4151104662709091; b = 0.4064829146052554e-1; v = 0.3760120964062763e-3
    <<6, 64862039, 2046047, <<3870, 9695644, 1806400>> >>,  \* 3235: a = 0.4649804275009218; b = 0.8258424547294755e-1; v = 0.3870969564418064e-3
    <<6, 78787520, 4701325, <<3955, 2877905, 3405500>> >>,  \* 3239: a = 0.5124695757009662; b = 0.1251841962027289; v = 0.3955287790534055e-3
    <<6, 93232212, 8458206, <<4015, 3619113, 266800>> >>,  \* 3243: a = 0.5574711100606224; b = 0.1679107505976331; v = 0.4015361911302668e-3
    <<6, 107949510, 13265367, <<4053, 8369867, 1954800>> >>,  \* 3247: a = 0.5998597333287227; b = 0.2102805057358715; v = 0.4053836986719548e-3
    <<6, 122688349, 19027289, <<4073, 5786732, 9911700>> >>,  \* 3251: a = 0.6395007148516600; b = 0.2518418087774107; v = 0.4073578673299117e-3
    <<6, 80760234, 527770, <<3954, 6283792, 3140600>> >>,  \* 3255: a = 0.5188456224746252; b = 0.4194321676077518e-1; v = 0.3954628379231406e-3
    <<6, 96249169, 2145961, <<4017, 6455088, 4753000>> >>,  \* 3259: a = 0.5664190707942778; b = 0.8457661551921499e-1; v = 0.4017645508847530e-3
    <<6, 112013324, 4866575, <<4059, 303486, 5129300>> >>,  \* 3263: a = 0.6110464353283153; b = 0.1273652932519396; v = 0.4059030348651293e-3
    <<6, 127782877, 8651377, <<4080, 5658094, 8488000>> >>,  \* 3267: a = 0.6526430302051563; b = 0.1698173239076354; v = 0.4080565809484880e-3
    <<6, 114116089, 546065, <<4063, 187536, 6465100>> >>,  \* 3271: a = 0.6167551880377548; b = 0.4266398851548864e-1; v = 0.4063018753664651e-3
    <<6, 130965094, 2194063, <<4087, 1912927, 9967100>> >>   \* 3275: a = 0.6607195418355383; b = 0.8551925814238349e-1; v = 0.4087191292799671e-3
  >>

\* ld3074 (lines 3281-3607): a = b = 0.0, n = 0, then one row per "n = n + gen_oh(...)"
ld3074 ==
  <<
    <<1, Keep, Keep, <<259, 9095953, 7547340>> >>,  \* 3317: v = 0.2599095953754734e-4
    <<2, Keep, Keep, <<3603, 1340896, 8754100>> >>,  \* 3319: v = 0.3603134089687541e-3
    <<3, Keep, Keep, <<3586, 679744, 1244700>> >>,  \* 3321: v = 0.3586067974412447e-3
    <<4, 106722, Keep, <<983, 1528474, 3858800>> >>,  \* 3324: a = 0.1886108518723392e-1; v = 0.9831528474385880e-4
    <<4, 691263, Keep, <<1605, 231079, 5445000>> >>,  \* 3327: a = 0.4800217244625303e-1; v = 0.1605023107954450e-3
    <<4, 2039362, Keep, <<2072, 2001314, 6409900>> >>,  \* 3330: a = 0.8244922058397242e-1; v = 0.2072200131464099e-3
    <<4, 4322941, Keep, <<2431, 2976188, 1418700>> >>,  \* 3333: a = 0.1200408362484023; v = 0.2431297618814187e-3
    <<4, 7639479, Keep, <<2711, 8190644, 9670700>> >>,  \* 3336: a = 0.1595773530809965; v = 0.2711819064496707e-3
    <<4, 12031653, Keep, <<2932, 7620383, 2111600>> >>,  \* 3339: a = 0.2002635973434064; v = 0.2932762038321116e-3
    <<4, 17498524, Keep, <<3107, 325141, 9736800>> >>,  \* 3342: a = 0.2415127590139982; v = 0.3107032514197368e-3
    <<4, 24002665, Keep, <<3243, 8080589, 2121300>> >>,  \* 3345: a = 0.2828584158458477; v = 0.3243808058921213e-3
    <<4, 31475132, Keep, <<3349, 8990913, 7403000>> >>,  \* 3348: a = 0.3239091015338138; v = 0.3349899091374030e-3
    <<4, 39819267, Keep, <<3430, 5806885, 521800>> >>,  \* 3351: a = 0.3643225097962194; v = 0.3430580688505218e-3
    <<4, 48913839, Keep, <<3490, 1241092, 9034300>> >>,  \* 3354: a = 0.4037897083691802; v = 0.3490124109290343e-3
    <<4, 58615764, Keep, <<3532, 1489485, 6195500>> >>,  \* 3357: a = 0.4420247515194127; v = 0.3532148948561955e-3
    <<4, 68762552, Keep, <<3559, 8626690, 6283300>> >>,  \* 3360: a = 0.4787572538464938; v = 0.3559862669062833e-3
    <<4, 79174483, Keep, <<3576, 2243175, 5141100>> >>,  \* 3363: a = 0.5137265251275234; v = 0.3576224317551411e-3
    <<4, 89656528, Keep, <<3584, 505330, 8607600>> >>,  \* 3366: a = 0.5466764056654611; v = 0.3584050533086076e-3
    <<4, 109983968, Keep, <<3584, 9035813, 7322400>> >>,  \* 3369: a = 0.6054859420813535; v = 0.3584903581373224e-3
    <<4, 119376630, Keep, <<3582, 9918790, 4058600>> >>,  \* 3372: a = 0.6308106701764562; v = 0.3582991879040586e-3
    <<4, 127937167, Keep, <<3582, 3711879, 6312500>> >>,  \* 3375: a = 0.6530369230179584; v = 0.3582371187963125e-3
    <<4, 135419142, Keep, <<3584, 3536311, 2235000>> >>,  \* 3378: a = 0.6718609524611158; v = 0.3584353631122350e-3
    <<4, 141577366, Keep, <<3589, 1201665, 1778500>> >>,  \* 3381: a = 0.6869676499894013; v = 0.3589120166517785e-3
    <<4, 146180762, Keep, <<3595, 4457045, 3160100>> >>,  \* 3384: a = 0.6980467077240748; v = 0.3595445704531601e-3
    <<4, 149033134, Keep, <<3600, 9435571, 1107400>> >>,  \* 3387: a = 0.7048241721250522; v = 0.3600943557111074e-3
    <<5, 937814, Keep, <<1456, 4470967, 4203900>> >>,  \* 3390: a = 0.5591105222058232e-1; v = 0.1456447096742039e-3
    <<5, 5942190, Keep, <<2252, 3701882, 8378200>> >>,  \* 3393: a = 0.1407384078513916; v = 0.2252370188283782e-3
    <<5, 16765991, Keep, <<2766, 1354434, 7489700>> >>,  \* 3396: a = 0.2364035438976309; v = 0.2766135443474897e-3
    <<5, 33880952, Keep, <<3110, 7294915, 85100>> >>,  \* 3399: a = 0.3360602737818170; v = 0.3110729491500851e-3
    <<5, 56931856, Keep, <<3342, 5067123, 339100>> >>,  \* 3402: a = 0.4356292630054665; v = 0.3342506712303391e-3
    <<5, 84957303, Keep, <<3491, 9818340, 2686000>> >>,  \* 3405: a = 0.5321569415256174; v = 0.3491981834026860e-3
    <<5, 116549233, Keep, <<3576, 36043, 4893200>> >>,  \* 3408: a = 0.6232956305040554; v = 0.3576003604348932e-3
    <<6, 2690353, 231643, <<1921, 9213057, 8856400>> >>,  \* 3412: a = 0.9469870086838469e-1; b = 0.2778748387309470e-1; v = 0.1921921305788564e-3
    <<6, 5493210, 1107741, <<2301, 4582164, 9563200>> >>,  \* 3416: a = 0.1353170300568141; b = 0.6076569878628364e-1; v = 0.2301458216495632e-3
    <<6, 9416545, 2824489, <<2604, 2485495, 2289300>> >>,  \* 3420: a = 0.1771679481726077; b = 0.9703072762711040e-1; v = 0.2604248549522893e-3
    <<6, 14481306, 5500862, <<2845, 2754258, 7069700>> >>,  \* 3424: a = 0.2197066664231751; b = 0.1354112458524762; v = 0.2845275425870697e-3
    <<6, 20668466, 9197966, <<3036, 8708979, 7484000>> >>,  \* 3428: a = 0.2624783557374927; b = 0.1750996479744100; v = 0.3036870897974840e-3
    <<6, 27925245, 13930742, <<3188, 4148322, 9806600>> >>,  \* 3432: a = 0.3050969521214442; b = 0.2154896907449802; v = 0.3188414832298066e-3
    <<6, 36169615, 19675466, <<3307, 464147, 2208900>> >>,  \* 3436: a = 0.3472252637196021; b = 0.2560954625740152; v = 0.3307046414722089e-3
    <<6, 45293900, 26374921, <<3398, 3309690, 3136000>> >>,  \* 3440: a = 0.3885610219026360; b = 0.2965070050624096; v = 0.3398330969031360e-3
    <<6, 55167876, 33942252, <<3466, 7578997, 537300>> >>,  \* 3444: a = 0.4288273776062765; b = 0.3363641488734497; v = 0.3466757899705373e-3
    <<6, 65641579, 42264035, <<3516, 959232, 3005400>> >>,  \* 3448: a = 0.4677662471302948; b = 0.3753400029836788; v = 0.3516095923230054e-3
    <<6, 76547913, 51202858, <<3549, 6451840, 4848600>> >>,  \* 3452: a = 0.5051333589553359; b = 0.4131297522144286; v = 0.3549645184048486e-3
    <<6, 87705070, 60599535, <<3570, 4159694, 4139200>> >>,  \* 3456: a = 0.5406942145810492; b = 0.4494423776081795; v = 0.3570415969441392e-3
    <<6, 98918725, 70275027, <<3581, 2517984, 9611800>> >>,  \* 3460: a = 0.5742204122576457; b = 0.4839938958841502; v = 0.3581251798496118e-3
    <<6, 10439230, 318661, <<2543, 4913299, 1334800>> >>,  \* 3464: a = 0.1865407027225188; b = 0.3259144851070796e-1; v = 0.2543491329913348e-3
    <<6, 16163720, 1401795, <<2786, 7110513, 3077600>> >>,  \* 3468: a = 0.2321186453689432; b = 0.6835679505297343e-1; v = 0.2786711051330776e-3
    <<6, 23071235, 3385347, <<2985, 5523610, 8367900>> >>,  \* 3472: a = 0.2773159142523882; b = 0.1062284864451989; v = 0.2985552361083679e-3
    <<6, 31089750, 6345877, <<3145, 8679291, 5403900>> >>,  \* 3476: a = 0.3219200192237254; b = 0.1454404409323047; v = 0.3145867929154039e-3
    <<6, 40121662, 10312151, <<3273, 2906620, 6760900>> >>,  \* 3480: a = 0.3657032593944029; b = 0.1854018282582510; v = 0.3273290662067609e-3
    <<6, 50046401, 15272634, <<3372, 7055119, 4350100>> >>,  \* 3484: a = 0.4084376778363622; b = 0.2256297412014750; v = 0.3372705511943501e-3
    <<6, 60723137, 21180612, <<3448, 2744378, 5151000>> >>,  \* 3488: a = 0.4499004945751427; b = 0.2657104425000896; v = 0.3448274437851510e-3
    <<6, 71993494, 27957948, <<3503, 5927830, 4858300>> >>,  \* 3492: a = 0.4898758141326335; b = 0.3052755487631557; v = 0.3503592783048583e-3
    <<6, 83684230, 35497991, <<3541, 8547926, 6316200>> >>,  \* 3496: a = 0.5281547442266309; b = 0.3439863920645423; v = 0.3541854792663162e-3
    <<6, 95609828, 43667927, <<3565, 9955179, 942800>> >>,  \* 3500: a = 0.5645346989813992; b = 0.3815229456121914; v = 0.3565995517909428e-3
    <<6, 107574944, 52310725, <<3578, 8020783, 289800>> >>,  \* 3504: a = 0.5988181252159848; b = 0.4175752420966734; v = 0.3578802078302898e-3
    <<6, 24374775, 380667, <<2958, 6445928, 6098200>> >>,  \* 3508: a = 0.2850425424471603; b = 0.3562149509862536e-1; v = 0.2958644592860982e-3
    <<6, 33159283, 1612007, <<3119, 5481291, 1683500>> >>,  \* 3512: a = 0.3324619433027876; b = 0.7330318886871096e-1; v = 0.3119548129116835e-3
    <<6, 42997943, 3784912, <<3250, 7452250, 598400>> >>,  \* 3516: a = 0.3785848333076282; b = 0.1123226296008472; v = 0.3250745225005984e-3
    <<6, 53752099, 6941091, <<3355, 1534159, 3520800>> >>,  \* 3520: a = 0.4232891028562115; b = 0.1521084193337708; v = 0.3355153415935208e-3
    <<6, 65266721, 11080458, <<3435, 8475685, 4932800>> >>,  \* 3524: a = 0.4664287050829722; b = 0.1921844459223610; v = 0.3435847568549328e-3
    <<6, 77372222, 16166151, <<3495, 7868316, 2248800>> >>,  \* 3528: a = 0.5078458493735726; b = 0.2321360989678303; v = 0.3495786831622488e-3
    <<6, 89886796, 22128118, <<3537, 7678055, 3462100>> >>,  \* 3532: a = 0.5473779816204180; b = 0.2715886486360520; v = 0.3537767805534621e-3
    <<6, 102618967, 28865811, <<3564, 4598154, 2142800>> >>,  \* 3536: a = 0.5848617133811376; b = 0.3101924707571355; v = 0.3564459815421428e-3
    <<6, 115370162, 36250253, <<3578, 4640612, 2546800>> >>,  \* 3540: a = 0.6201348281584888; b = 0.3476121052890973; v = 0.3578464061225468e-3
    <<6, 44518131, 424856, <<3239, 7487628, 3621200>> >>,  \* 3544: a = 0.3852191185387871; b = 0.3763224880035108e-1; v = 0.3239748762836212e-3
    <<6, 56117525, 1760076, <<3345, 4917841, 7428700>> >>,  \* 3548: a = 0.4325025061073423; b = 0.7659581935637135e-1; v = 0.3345491784174287e-3
    <<6, 68501792, 4060368, <<3429, 1261773, 178200>> >>,  \* 3552: a = 0.4778486229734490; b = 0.1163381306083900; v = 0.3429126177301782e-3
    <<6, 81484315, 7337261, <<3492, 4203430, 9742100>> >>,  \* 3556: a = 0.5211663693009000; b = 0.1563890598752899; v = 0.3492420343097421e-3
    <<6, 94870228, 11563886, <<3537, 3990502, 3525700>> >>,  \* 3560: a = 0.5623469504853703; b = 0.1963320810149200; v = 0.3537399050235257e-3
    <<6, 108458340, 16678333, <<3566, 2091526, 5917200>> >>,  \* 3564: a = 0.6012718188659246; b = 0.2357847407258738; v = 0.3566209152659172e-3
    <<6, 122043510, 22586075, <<3581, 843219, 1978200>> >>,  \* 3568: a = 0.6378179206390117; b = 0.2743846121244060; v = 0.3581084321919782e-3
    <<6, 70187863, 455342, <<3426, 5221175, 9151200>> >>,  \* 3572: a = 0.4836936460214534; b = 0.3895902610739024e-1; v = 0.3426522117591512e-3
    <<6, 84072719, 1858696, <<3491, 8487701, 2137900>> >>,  \* 3576: a = 0.5293792562683797; b = 0.7871246819312640e-1; v = 0.3491848770121379e-3
    <<6, 98370891, 4233774, <<3539, 3182352, 3147600>> >>,  \* 3580: a = 0.5726281253100033; b = 0.1187963808202981; v = 0.3539318235231476e-3
    <<6, 112865310, 7564419, <<3570, 2314384, 5869400>> >>,  \* 3584: a = 0.6133658776169068; b = 0.1587914708061787; v = 0.3570231438458694e-3
    <<6, 127339017, 11797564, <<3586, 2073350, 5171400>> >>,  \* 3588: a = 0.6515085491865307; b = 0.1983058575227646; v = 0.3586207335051714e-3
    <<6, 100179869, 474546, <<3541, 1962051, 6402500>> >>,  \* 3592: a = 0.5778692716064976; b = 0.3977209689791542e-1; v = 0.3541196205164025e-3
    <<6, 115614227, 1915279, <<3574, 2969115, 7395300>> >>,  \* 3596: a = 0.6207904288086192; b = 0.7990157592981152e-1; v = 0.3574296911573953e-3
    <<6, 131024278, 4317634, <<3591, 9932798, 1896300>> >>,  \* 3600: a = 0.6608688171046802; b = 0.1199671308754309; v = 0.3591993279818963e-3
    <<6, 132917515, 483837, <<3595, 8550346, 6199700>> >>   \* 3604: a = 0.6656263089489130; b = 0.4015955957805969e-1; v = 0.3595855034661997e-3
  >>

\* ld3470 (lines 3610-3972): a = b = 0.0, n = 0, then one row per "n = n + gen_oh(...)"
ld3470 ==
  <<
    <<1, Keep, Keep, <<204, 382730, 8263300>> >>,  \* 3646: v = 0.2040382730826330e-4
    <<3, Keep, Keep, <<3178, 1497038, 8954400>> >>,  \* 3648: v = 0.3178149703889544e-3
    <<4, 88899, Keep, <<828, 8115128, 761100>> >>,  \* 3651: a = 0.1721420832906233e-1; v = 0.8288115128076110e-4
    <<4, 583145, Keep, <<1360, 8831925, 2295400>> >>,  \* 3654: a = 0.4408875374981770e-1; v = 0.1360883192522954e-3
    <<4, 1730375, Keep, <<1766, 8544545, 4266200>> >>,  \* 3657: a = 0.7594680813878681e-1; v = 0.1766854454542662e-3
    <<4, 3685222, Keep, <<2083, 1531612, 3015300>> >>,  \* 3661: a = 0.1108335359204799; v = 0.2083153161230153e-3
    <<4, 6540308, Keep, <<2333, 2795446, 5715800>> >>,  \* 3664: a = 0.1476517054388567; v = 0.2333279544657158e-3
    <<4, 10342360, Keep, <<2532, 8095399, 3024700>> >>,  \* 3667: a = 0.1856731870860615; v = 0.2532809539930247e-3
    <<4, 15101682, Keep, <<2692, 4721842, 1115800>> >>,  \* 3670: a = 0.2243634099428821; v = 0.2692472184211158e-3
    <<4, 20798176, Keep, <<2819, 9499468, 1188500>> >>,  \* 3673: a = 0.2633006881662727; v = 0.2819949946811885e-3
    <<4, 27385503, Keep, <<2920, 9535939, 7303000>> >>,  \* 3676: a = 0.3021340904916283; v = 0.2920953593973030e-3
    <<4, 34794212, Keep, <<2999, 8897829, 4835200>> >>,  \* 3679: a = 0.3405594048030089; v = 0.2999889782948352e-3
    <<4, 42934276, Keep, <<3060, 2921204, 9690200>> >>,  \* 3682: a = 0.3783044434007372; v = 0.3060292120496902e-3
    <<4, 51697254, Keep, <<3105, 1091675, 2219200>> >>,  \* 3685: a = 0.4151194767407910; v = 0.3105109167522192e-3
    <<4, 60958234, Keep, <<3136, 9023875, 5031200>> >>,  \* 3688: a = 0.4507705766443257; v = 0.3136902387550312e-3
    <<4, 70577571, Keep, <<3157, 9846524, 5463200>> >>,  \* 3691: a = 0.4850346056573187; v = 0.3157984652454632e-3
    <<4, 80402459, Keep, <<3170, 5165184, 2542200>> >>,  \* 3694: a = 0.5176950817792470; v = 0.3170516518425422e-3
    <<4, 90268321, Keep, <<3176, 5684256, 3375500>> >>,  \* 3697: a = 0.5485384240820989; v = 0.3176568425633755e-3
    <<4, 109412811, Keep, <<3177, 1984112, 706200>> >>,  \* 3700: a = 0.6039117238943308; v = 0.3177198411207062e-3
    <<4, 118313567, Keep, <<3175, 5194923, 9473300>> >>,  \* 3703: a = 0.6279956655573113; v = 0.3175519492394733e-3
    <<4, 126501932, Keep, <<3174, 6549526, 3475600>> >>,  \* 3706: a = 0.6493636169568952; v = 0.3174654952634756e-3
    <<4, 133772793, Keep, <<3175, 6764154, 6765400>> >>,  \* 3709: a = 0.6677644117704504; v = 0.3175676415467654e-3
    <<4, 139920825, Keep, <<3178, 9234178, 3541000>> >>,  \* 3712: a = 0.6829368572115624; v = 0.3178923417835410e-3
    <<4, 144748909, Keep, <<3183, 7882875, 3190900>> >>,  \* 3715: a = 0.6946195818184121; v = 0.3183788287531909e-3
    <<4, 148081868, Keep, <<3188, 7551519, 1880700>> >>,  \* 3718: a = 0.7025711542057026; v = 0.3188755151918807e-3
    <<4, 149785270, Keep, <<3191, 9168893, 1384900>> >>,  \* 3721: a = 0.7066004767140119; v = 0.3191916889313849e-3
    <<5, 790288, Keep, <<1231, 7796117, 4450800>> >>,  \* 3724: a = 0.5132537689946062e-1; v = 0.1231779611744508e-3
    <<5, 5054370, Keep, <<1924, 6613738, 3988000>> >>,  \* 3727: a = 0.1297994661331225; v = 0.1924661373839880e-3
    <<5, 14373220, Keep, <<2380, 8818674, 342400>> >>,  \* 3730: a = 0.2188852049401307; v = 0.2380881867403424e-3
    <<5, 29262663, Keep, <<2693, 1006630, 3788500>> >>,  \* 3733: a = 0.3123174824903457; v = 0.2693100663037885e-3
    <<5, 49549205, Keep, <<2908, 6733828, 3436600>> >>,  \* 3736: a = 0.4064037620738195; v = 0.2908673382834366e-3
    <<5, 74549431, Keep, <<3053, 9146193, 8153500>> >>,  \* 3739: a = 0.4984958396944782; v = 0.3053914619381535e-3
    <<5, 103193797, Keep, <<3143, 9166841, 4777700>> >>,  \* 3742: a = 0.5864975046021365; v = 0.3143916684147777e-3
    <<5, 134136337, Keep, <<3187, 422440, 5536300>> >>,  \* 3745: a = 0.6686711634580175; v = 0.3187042244055363e-3
    <<6, 2278923, 196174, <<1635, 2195358, 6979000>> >>,  \* 3749: a = 0.8715738780835950e-1; b = 0.2557175233367578e-1; v = 0.1635219535869790e-3
    <<6, 4675381, 942421, <<1968, 1099176, 9607000>> >>,  \* 3753: a = 0.1248383123134007; b = 0.5604823383376681e-1; v = 0.1968109917696070e-3
    <<6, 8049748, 2413057, <<2236, 7543422, 4997400>> >>,  \* 3757: a = 0.1638062693383378; b = 0.8968568601900765e-1; v = 0.2236754342249974e-3
    <<6, 12430834, 4718200, <<2453, 1866870, 1718100>> >>,  \* 3761: a = 0.2035586203373176; b = 0.1254086651976279; v = 0.2453186687017181e-3
    <<6, 17813968, 7919732, <<2627, 5517915, 8054100>> >>,  \* 3765: a = 0.2436798975293774; b = 0.1624780150162012; v = 0.2627551791580541e-3
    <<6, 24166266, 12041103, <<2767, 6548601, 5222000>> >>,  \* 3769: a = 0.2838207507773806; b = 0.2003422342683208; v = 0.2767654860152220e-3
    <<6, 31430380, 17073663, <<2879, 4670277, 6589500>> >>,  \* 3773: a = 0.3236787502217692; b = 0.2385628026255263; v = 0.2879467027765895e-3
    <<6, 39527423, 22981007, <<2967, 6399189, 1870200>> >>,  \* 3777: a = 0.3629849554840691; b = 0.2767731148783578; v = 0.2967639918918702e-3
    <<6, 48359424, 29702185, <<3035, 9006846, 6035100>> >>,  \* 3781: a = 0.4014948081992087; b = 0.3146542308245309; v = 0.3035900684660351e-3
    <<6, 57811516, 37154230, <<3087, 3382372, 9830800>> >>,  \* 3785: a = 0.4389818379260225; b = 0.3519196415895088; v = 0.3087338237298308e-3
    <<6, 67753954, 45234255, <<3124, 6088388, 6016700>> >>,  \* 3789: a = 0.4752331143674377; b = 0.3883050984023654; v = 0.3124608838860167e-3
    <<6, 78043995, 53821263, <<3150, 842942, 2674300>> >>,  \* 3793: a = 0.5100457318374018; b = 0.4235613423908649; v = 0.3150084294226743e-3
    <<6, 88527642, 62777731, <<3165, 9583985, 9840200>> >>,  \* 3797: a = 0.5432238388954868; b = 0.4574484717196220; v = 0.3165958398598402e-3
    <<6, 99041229, 71950984, <<3174, 3204409, 5737200>> >>,  \* 3801: a = 0.5745758685072442; b = 0.4897311639255524; v = 0.3174320440957372e-3
    <<6, 8916336, 271917, <<2182, 1889098, 1259900>> >>,  \* 3805: a = 0.1723981437592809; b = 0.3010630597881105e-1; v = 0.2182188909812599e-3
    <<6, 13861738, 1200560, <<2399, 7279339, 2144500>> >>,  \* 3809: a = 0.2149553257844597; b = 0.6326031554204694e-1; v = 0.2399727933921445e-3
    <<6, 19864941, 2909828, <<2579, 7961335, 1465200>> >>,  \* 3813: a = 0.2573256081247422; b = 0.9848566980258631e-1; v = 0.2579796133514652e-3
    <<6, 26877088, 5474273, <<2727, 1140526, 2353500>> >>,  \* 3817: a = 0.2993163751238106; b = 0.1350835952384266; v = 0.2727114052623535e-3
    <<6, 34827812, 8928780, <<2846, 3276562, 8135500>> >>,  \* 3821: a = 0.3407238005148000; b = 0.1725184055442181; v = 0.2846327656281355e-3
    <<6, 43627317, 13274885, <<2941, 4911020, 5133400>> >>,  \* 3825: a = 0.3813454978483264; b = 0.2103559279730725; v = 0.2941491102051334e-3
    <<6, 53168463, 18485124, <<3016, 494921, 3610700>> >>,  \* 3829: a = 0.4209848104423343; b = 0.2482278774554860; v = 0.3016049492136107e-3
    <<6, 63328834, 24506198, <<3072, 9497261, 7564800>> >>,  \* 3833: a = 0.4594519699996300; b = 0.2858099509982883; v = 0.3072949726175648e-3
    <<6, 73972747, 31261417, <<3114, 7681428, 8646000>> >>,  \* 3837: a = 0.4965640166185930; b = 0.3228075659915428; v = 0.3114768142886460e-3
    <<6, 84953224, 38652667, <<3143, 8236736, 6622300>> >>,  \* 3841: a = 0.5321441655571562; b = 0.3589459907204151; v = 0.3143823673666223e-3
    <<6, 96113879, 46562056, <<3162, 2697646, 6153500>> >>,  \* 3845: a = 0.5660208438582166; b = 0.3939630088864310; v = 0.3162269764661535e-3
    <<6, 107290684, 54853296, <<3172, 1646637, 5982100>> >>,  \* 3849: a = 0.5980264315964364; b = 0.4276029922949089; v = 0.3172164663759821e-3
    <<6, 20975632, 326886, <<2554, 5753989, 6743500>> >>,  \* 3853: a = 0.2644215852350733; b = 0.3300939429072552e-1; v = 0.2554575398967435e-3
    <<6, 28646409, 1388787, <<2701, 7040691, 3567700>> >>,  \* 3857: a = 0.3090113743443063; b = 0.6803887650078501e-1; v = 0.2701704069135677e-3
    <<6, 37295301, 3271851, <<2823, 6934134, 6894000>> >>,  \* 3861: a = 0.3525871079197808; b = 0.1044326136206709; v = 0.2823693413468940e-3
    <<6, 46817407, 6021555, <<2922, 8984632, 1428900>> >>,  \* 3865: a = 0.3950418005354029; b = 0.1416751597517679; v = 0.2922898463214289e-3
    <<6, 57093582, 9648943, <<3001, 8290621, 6242800>> >>,  \* 3869: a = 0.4362475663430163; b = 0.1793408610504821; v = 0.3001829062162428e-3
    <<6, 67991703, 14134914, <<3062, 8908645, 4295300>> >>,  \* 3873: a = 0.4760661812145854; b = 0.2170630750175722; v = 0.3062890864542953e-3
    <<6, 79368352, 19433292, <<3108, 3282792, 6474600>> >>,  \* 3877: a = 0.5143551042512103; b = 0.2545145157815807; v = 0.3108328279264746e-3
    <<6, 91070681, 25473141, <<3140, 2431462, 124500>> >>,  \* 3881: a = 0.5509709026935597; b = 0.2913940101706601; v = 0.3140243146201245e-3
    <<6, 102938336, 32160566, <<3160, 6380309, 7713000>> >>,  \* 3885: a = 0.5857711030329428; b = 0.3274169910910705; v = 0.3160638030977130e-3
    <<6, 114805352, 39380155, <<3171, 4628822, 627500>> >>,  \* 3889: a = 0.6186149917404392; b = 0.3623081329317265; v = 0.3171462882206275e-3
    <<6, 38597438, 366945, <<2812, 3884160, 3179600>> >>,  \* 3893: a = 0.3586894569557064; b = 0.3497354386450040e-1; v = 0.2812388416031796e-3
    <<6, 48850130, 1524994, <<2912, 1375002, 8804500>> >>,  \* 3897: a = 0.4035266610019441; b = 0.7129736739757095e-1; v = 0.2912137500288045e-3
    <<6, 59883049, 3530104, <<2993, 2412565, 220600>> >>,  \* 3901: a = 0.4467775312332510; b = 0.1084758620193165; v = 0.2993241256502206e-3
    <<6, 71549771, 6402824, <<3057, 1017389, 8382200>> >>,  \* 3905: a = 0.4883638346608543; b = 0.1460915689241772; v = 0.3057101738983822e-3
    <<6, 83695667, 10132425, <<3105, 3193262, 5143200>> >>,  \* 3909: a = 0.5281908348434601; b = 0.1837790832369980; v = 0.3105319326251432e-3
    <<6, 96159197, 14679833, <<3139, 5655144, 2816700>> >>,  \* 3913: a = 0.5661542687149311; b = 0.2212075390874021; v = 0.3139565514428167e-3
    <<6, 108773584, 19979772, <<3161, 5430068, 636600>> >>,  \* 3917: a = 0.6021450102031452; b = 0.2580682841160985; v = 0.3161543006806366e-3
    <<6, 121368674, 25942380, <<3172, 9859606, 1329400>> >>,  \* 3921: a = 0.6360520783610050; b = 0.2940656362094121; v = 0.3172985960613294e-3
    <<6, 61334900, 395537, <<2989, 4003369, 143100>> >>,  \* 3925: a = 0.4521611065087196; b = 0.3631055365867002e-1; v = 0.2989400336901431e-3
    <<6, 73785923, 1619934, <<3054, 5558839, 4767700>> >>,  \* 3929: a = 0.4959365651560963; b = 0.7348318468484350e-1; v = 0.3054555883947677e-3
    <<6, 86730445, 3703547, <<3104, 7649608, 770200>> >>,  \* 3933: a = 0.5376815804038283; b = 0.1111087643812648; v = 0.3104764960807702e-3
    <<6, 99993480, 6644451, <<3141, 158259, 7761600>> >>,  \* 3937: a = 0.5773314480243768; b = 0.1488226085145408; v = 0.3141015825977616e-3
    <<6, 113397889, 10411103, <<3164, 5206211, 5989600>> >>,  \* 3941: a = 0.6148113245575056; b = 0.1862892274135151; v = 0.3164520621159896e-3
    <<6, 126765892, 14944263, <<3176, 6523059, 1220400>> >>,  \* 3945: a = 0.6500407462842380; b = 0.2231909701714456; v = 0.3176652305912204e-3
    <<6, 88296805, 414751, <<3105, 971610, 2393900>> >>,  \* 3949: a = 0.5425151448707213; b = 0.3718201306118944e-1; v = 0.3105097161023939e-3
    <<6, 102382004, 1680135, <<3143, 141178, 9055000>> >>,  \* 3953: a = 0.5841860556907931; b = 0.7483616335067346e-1; v = 0.3143014117890550e-3
    <<6, 116611916, 3803566, <<3168, 1728662, 8720000>> >>,  \* 3957: a = 0.6234632186851500; b = 0.1125990834266120; v = 0.3168172866287200e-3
    <<6, 130796234, 6761739, <<3181, 4018655, 7096800>> >>,  \* 3961: a = 0.6602934551848843; b = 0.1501303813157619; v = 0.3181401865570968e-3
    <<6, 118261473, 425835, <<3170, 6636591, 5603700>> >>,  \* 3965: a = 0.6278573968375105; b = 0.3767559930245720e-1; v = 0.3170663659156037e-3
    <<6, 133291138, 1709370, <<3185, 4479446, 2551000>> >>   \* 3969: a = 0.6665611711264577; b = 0.7548443301360158e-1; v = 0.3185447944625510e-3
  >>

\* ld3890 (lines 3975-4373): a = b = 0.0, n = 0, then one row per "n = n + gen_oh(...)"
ld3890 ==
  <<
    <<1, Keep, Keep, <<180, 7395252, 1969200>> >>,  \* 4011: v = 0.1807395252196920e-4
    <<2, Keep, Keep, <<2848, 87822, 3882700>> >>,  \* 4013: v = 0.2848008782238827e-3
    <<3, Keep, Keep, <<2836, 658375, 3058100>> >>,  \* 4015: v = 0.2836065837530581e-3
    <<4, 75641, Keep, <<701, 3149266, 6738160>> >>,  \* 4018: a = 0.1587876419858352e-1; v = 0.7013149266673816e-4
    <<4, 496750, Keep, <<1162, 7980219, 5676600>> >>,  \* 4021: a = 0.4069193593751206e-1; v = 0.1162798021956766e-3
    <<4, 1480893, Keep, <<1518, 7285839, 7210500>> >>,  \* 4024: a = 0.7025888115257997e-1; v = 0.1518728583972105e-3
    <<4, 3167241, Keep, <<1798, 7961082, 1693400>> >>,  \* 4027: a = 0.1027495450028704; v = 0.1798796108216934e-3
    <<4, 5642689, Keep, <<2022, 5933859, 7278500>> >>,  \* 4030: a = 0.1371457730893426; v = 0.2022593385972785e-3
    <<4, 8955449, Keep, <<2203, 931055, 7546400>> >>,  \* 4033: a = 0.1727758532671953; v = 0.2203093105575464e-3
    <<4, 13123017, Keep, <<2349, 2942342, 9985500>> >>,  \* 4036: a = 0.2091492038929037; v = 0.2349294234299855e-3
    <<4, 18137288, Keep, <<2467, 6820587, 4700300>> >>,  \* 4039: a = 0.2458813281751915; v = 0.2467682058747003e-3
    <<4, 23968084, Keep, <<2563, 926835, 7222400>> >>,  \* 4042: a = 0.2826545859450066; v = 0.2563092683572224e-3
    <<4, 30565774, Keep, <<2639, 2538967, 6331800>> >>,  \* 4045: a = 0.3191957291799622; v = 0.2639253896763318e-3
    <<4, 37863358, Keep, <<2699, 1374792, 6510800>> >>,  \* 4048: a = 0.3552621469299578; v = 0.2699137479265108e-3
    <<4, 45778231, Keep, <<2745, 1964201, 6673900>> >>,  \* 4051: a = 0.3906329503406230; v = 0.2745196420166739e-3
    <<4, 54213733, Keep, <<2779, 5291973, 9759300>> >>,  \* 4054: a = 0.4251028614093031; v = 0.2779529197397593e-3
    <<4, 63060555, Keep, <<2803, 9960866, 8426500>> >>,  \* 4057: a = 0.4584777520111870; v = 0.2803996086684265e-3
    <<4, 72198012, Keep, <<2820, 3023567, 1584200>> >>,  \* 4060: a = 0.4905711358710193; v = 0.2820302356715842e-3
    <<4, 81495197, Keep, <<2830, 567474, 9106800>> >>,  \* 4063: a = 0.5212011669847385; v = 0.2830056747491068e-3
    <<4, 90812001, Keep, <<2834, 8089507, 7683900>> >>,  \* 4066: a = 0.5501878488737995; v = 0.2834808950776839e-3
    <<4, 108903244, Keep, <<2835, 2823390, 7892900>> >>,  \* 4069: a = 0.6025037877479342; v = 0.2835282339078929e-3
    <<4, 117359039, Keep, <<2833, 8192670, 6580000>> >>,  \* 4072: a = 0.6254572689549016; v = 0.2833819267065800e-3
    <<4, 125198954, Keep, <<2832, 8583369, 678400>> >>,  \* 4075: a = 0.6460107179528248; v = 0.2832858336906784e-3
    <<4, 132250520, Keep, <<2833, 2682354, 5124400>> >>,  \* 4078: a = 0.6639541138154251; v = 0.2833268235451244e-3
    <<4, 138340352, Keep, <<2835, 4326770, 2925300>> >>,  \* 4081: a = 0.6790688515667495; v = 0.2835432677029253e-3
    <<4, 143299803, Keep, <<2839, 917227, 4304900>> >>,  \* 4084: a = 0.6911338580371512; v = 0.2839091722743049e-3
    <<4, 146974211, Keep, <<2843, 3081788, 7584100>> >>,  \* 4087: a = 0.6999385956126490; v = 0.2843308178875841e-3
    <<4, 149236024, Keep, <<2846, 7035505, 3384600>> >>,  \* 4090: a = 0.7053037748656896; v = 0.2846703550533846e-3
    <<5, 671818, Keep, <<1051, 1934069, 7190000>> >>,  \* 4093: a = 0.4732224387180115e-1; v = 0.1051193406971900e-3
    <<5, 4335137, Keep, <<1657, 8718387, 9697400>> >>,  \* 4096: a = 0.1202100529326803; v = 0.1657871838796974e-3
    <<5, 12415188, Keep, <<2064, 6481137, 1423200>> >>,  \* 4099: a = 0.2034304820664855; v = 0.2064648113714232e-3
    <<5, 25444223, Keep, <<2347, 9427458, 1974100>> >>,  \* 4102: a = 0.2912285643573002; v = 0.2347942745819741e-3
    <<5, 43373866, Keep, <<2547, 7753265, 9772600>> >>,  \* 4105: a = 0.3802361792726768; v = 0.2547775326597726e-3
    <<5, 65724007, Keep, <<2686, 8766848, 4702500>> >>,  \* 4108: a = 0.4680598511056146; v = 0.2686876684847025e-3
    <<5, 91681362, Keep, <<2778, 6657555, 1586700>> >>,  \* 4111: a = 0.5528151052155599; v = 0.2778665755515867e-3
    <<5, 120183393, Keep, <<2830, 9966167, 8292900>> >>,  \* 4114: a = 0.6329386307803041; v = 0.2830996616782929e-3
    <<6, 1947224, 167578, <<1403, 633401, 6837200>> >>,  \* 4118: a = 0.8056516651369069e-1; b = 0.2363454684003124e-1; v = 0.1403063340168372e-3
    <<6, 4012311, 808485, <<1696, 5041259, 3947700>> >>,  \* 4122: a = 0.1156476077139389; b = 0.5191291632545936e-1; v = 0.1696504125939477e-3
    <<6, 6935518, 2078028, <<1935, 7872427, 4539000>> >>,  \* 4126: a = 0.1520473382760421; b = 0.8322715736994519e-1; v = 0.1935787242745390e-3
    <<6, 10750196, 4077658, <<2130, 6145105, 2196800>> >>,  \* 4130: a = 0.1892986699745931; b = 0.1165855667993712; v = 0.2130614510521968e-3
    <<6, 15461348, 6868208, <<2289, 3812659, 3104800>> >>,  \* 4134: a = 0.2270194446777792; b = 0.1513077167409504; v = 0.2289381265931048e-3
    <<6, 21050144, 10478160, <<2418, 6302928, 1618600>> >>,  \* 4138: a = 0.2648908185093273; b = 0.1868882025807859; v = 0.2418630292816186e-3
    <<6, 27477096, 14909036, <<2523, 4004956, 3119300>> >>,  \* 4142: a = 0.3026389259574136; b = 0.2229277629776224; v = 0.2523400495631193e-3
    <<6, 34684494, 20139094, <<2607, 6239734, 4960500>> >>,  \* 4146: a = 0.3400220296151384; b = 0.2590951840746235; v = 0.2607623973449605e-3
    <<6, 42598400, 26126040, <<2674, 4410326, 8920900>> >>,  \* 4150: a = 0.3768217953335510; b = 0.2951047291750847; v = 0.2674441032689209e-3
    <<6, 51130388, 32809138, <<2726, 4323603, 4335600>> >>,  \* 4154: a = 0.4128372900921884; b = 0.3307019714169930; v = 0.2726432360343356e-3
    <<6, 60179140, 40110944, <<2765, 7876859, 2454500>> >>,  \* 4158: a = 0.4478807131815630; b = 0.3656544101087634; v = 0.2765787685924545e-3
    <<6, 69631915, 47938794, <<2794, 4286906, 4222400>> >>,  \* 4162: a = 0.4817742034089257; b = 0.3997448951939695; v = 0.2794428690642224e-3
    <<6, 79365938, 56186108, <<2814, 990020, 6289500>> >>,  \* 4166: a = 0.5143472814653344; b = 0.4327667110812024; v = 0.2814099002062895e-3
    <<6, 89249678, 64733541, <<2826, 4295315, 7899400>> >>,  \* 4170: a = 0.5454346213905650; b = 0.4645196123532293; v = 0.2826429531578994e-3
    <<6, 99144011, 73449999, <<2832, 9835425, 5088400>> >>,  \* 4174: a = 0.5748739313170252; b = 0.4948063555703345; v = 0.2832983542550884e-3
    <<6, 7676148, 233918, <<1886, 6955652, 8497600>> >>,  \* 4178: a = 0.1599598738286342; b = 0.2792357590048985e-1; v = 0.1886695565284976e-3
    <<6, 11977180, 1036224, <<2081, 8678827, 4823400>> >>,  \* 4182: a = 0.1998097412500951; b = 0.5877141038139065e-1; v = 0.2081867882748234e-3
    <<6, 17225740, 2519682, <<2245, 1486806, 79600>> >>,  \* 4186: a = 0.2396228952566202; b = 0.9164573914691377e-1; v = 0.2245148680600796e-3
    <<6, 23389617, 4755618, <<2380, 3704915, 1187200>> >>,  \* 4190: a = 0.2792228341097746; b = 0.1259049641962687; v = 0.2380370491511872e-3
    <<6, 30418365, 7782047, <<2491, 3980418, 5245500>> >>,  \* 4194: a = 0.3184251107546741; b = 0.1610594823400863; v = 0.2491398041852455e-3
    <<6, 38245007, 11609057, <<2581, 6324058, 8123000>> >>,  \* 4198: a = 0.3570481164426244; b = 0.1967151653460898; v = 0.2581632405881230e-3
    <<6, 46787706, 16222520, <<2653, 9655062, 2741700>> >>,  \* 4202: a = 0.3949164710492144; b = 0.2325404606175168; v = 0.2653965506227417e-3
    <<6, 55951366, 21586793, <<2710, 8572167, 4708700>> >>,  \* 4206: a = 0.4318617293970503; b = 0.2682461141151439; v = 0.2710857216747087e-3
    <<6, 65629189, 27646790, <<2754, 4340939, 365900>> >>,  \* 4210: a = 0.4677221009931678; b = 0.3035720116011973; v = 0.2754434093903659e-3
    <<6, 75704183, 34329639, <<2786, 5799325, 1938000>> >>,  \* 4214: a = 0.5023417939270955; b = 0.3382781859197439; v = 0.2786579932519380e-3
    <<6, 86050626, 41546076, <<2809, 110806, 7947400>> >>,  \* 4218: a = 0.5355701836636128; b = 0.3721383065625942; v = 0.2809011080679474e-3
    <<6, 96535460, 49191618, <<2823, 3361845, 6098700>> >>,  \* 4222: a = 0.5672608451328771; b = 0.4049346360466055; v = 0.2823336184560987e-3
    <<6, 107019586, 57147578, <<2831, 1011758, 630900>> >>,  \* 4226: a = 0.5972704202540162; b = 0.4364538098633802; v = 0.2831101175806309e-3
    <<6, 18179709, 282825, <<2221, 6799703, 5454600>> >>,  \* 4230: a = 0.2461687022333596; b = 0.3070423166833368e-1; v = 0.2221679970354546e-3
    <<6, 24913874, 1205121, <<2356, 1857342, 7070300>> >>,  \* 4234: a = 0.2881774566286831; b = 0.6338034669281885e-1; v = 0.2356185734270703e-3
    <<6, 32550589, 2847701, <<2469, 2283448, 559000>> >>,  \* 4238: a = 0.3293963604116978; b = 0.9742862487067941e-1; v = 0.2469228344805590e-3
    <<6, 41010167, 5257336, <<2562, 7263486, 4204600>> >>,  \* 4242: a = 0.3697303822241377; b = 0.1323799532282290; v = 0.2562726348642046e-3
    <<6, 50200572, 8452057, <<2638, 7567267, 5302800>> >>,  \* 4246: a = 0.4090663023135127; b = 0.1678497018129336; v = 0.2638756726753028e-3
    <<6, 60018339, 12424836, <<2699, 3111573, 9086200>> >>,  \* 4250: a = 0.4472819355411712; b = 0.2035095105326114; v = 0.2699311157390862e-3
    <<6, 70349807, 17146233, <<2746, 2332684, 383700>> >>,  \* 4254: a = 0.4842513377231437; b = 0.2390692566672091; v = 0.2746233268403837e-3
    <<6, 81072509, 22566384, <<2781, 2256744, 5477100>> >>,  \* 4258: a = 0.5198477629962928; b = 0.2742649818076149; v = 0.2781225674454771e-3
    <<6, 92056619, 28616567, <<2805, 8812540, 4568400>> >>,  \* 4262: a = 0.5539453011883145; b = 0.3088503806580094; v = 0.2805881254045684e-3
    <<6, 103166411, 35210460, <<2821, 7198770, 491300>> >>,  \* 4266: a = 0.5864196762401251; b = 0.3425904245906614; v = 0.2821719877004913e-3
    <<6, 114261662, 42245171, <<2830, 2225023, 3312400>> >>,  \* 4270: a = 0.6171484466668390; b = 0.3752562294789468; v = 0.2830222502333124e-3
    <<6, 33674291, 319139, <<2457, 9959567, 4487000>> >>,  \* 4274: a = 0.3350337830565727; b = 0.3261589934634747e-1; v = 0.2457995956744870e-3
    <<6, 42769390, 1330044, <<2551, 4744075, 370600>> >>,  \* 4278: a = 0.3775773224758284; b = 0.6658438928081572e-1; v = 0.2551474407503706e-3
    <<6, 52621933, 3088031, <<2629, 653351, 9531100>> >>,  \* 4282: a = 0.4188155229848973; b = 0.1014565797157954; v = 0.2629065335195311e-3
    <<6, 63116365, 5618979, <<2691, 9004499, 2507500>> >>,  \* 4286: a = 0.4586805892009344; b = 0.1368573320843822; v = 0.2691900449925075e-3
    <<6, 74129413, 8922889, <<2741, 2754857, 5427600>> >>,  \* 4290: a = 0.4970895714224235; b = 0.1724614851951608; v = 0.2741275485754276e-3
    <<6, 85530945, 12976447, <<2778, 5309701, 2259500>> >>,  \* 4294: a = 0.5339505133960747; b = 0.2079779381416412; v = 0.2778530970122595e-3
    <<6, 97185178, 17734911, <<2805, 105676, 4674100>> >>,  \* 4298: a = 0.5691665792531440; b = 0.2431385788322288; v = 0.2805010567646741e-3
    <<6, 108952046, 23133552, <<2822, 558340, 3104000>> >>,  \* 4302: a = 0.6026387682680377; b = 0.2776901883049853; v = 0.2822055834031040e-3
    <<6, 120688622, 29088771, <<2831, 169012, 4347300>> >>,  \* 4306: a = 0.6342676150163307; b = 0.3113881356386632; v = 0.2831016901243473e-3
    <<6, 53880689, 345756, <<2624, 4749011, 3180300>> >>,  \* 4310: a = 0.4237951119537067; b = 0.3394877848664351e-1; v = 0.2624474901131803e-3
    <<6, 65060675, 1420123, <<2688, 341630, 3937700>> >>,  \* 4314: a = 0.4656918683234929; b = 0.6880219556291447e-1; v = 0.2688034163039377e-3
    <<6, 76776105, 3256960, <<2738, 9327512, 8763600>> >>,  \* 4318: a = 0.5058857069185980; b = 0.1041946859721635; v = 0.2738932751287636e-3
    <<6, 88885431, 5863545, <<2777, 9447912, 4252300>> >>,  \* 4322: a = 0.5443204666713996; b = 0.1398039738736393; v = 0.2777944791242523e-3
    <<6, 101243858, 9222955, <<2806, 116616, 6098700>> >>,  \* 4326: a = 0.5809298813759742; b = 0.1753373381196155; v = 0.2806011661660987e-3
    <<6, 113704375, 13295801, <<2824, 1814565, 9746000>> >>,  \* 4330: a = 0.6156416039447128; b = 0.2105215793514010; v = 0.2824181456597460e-3
    <<6, 126119040, 18021516, <<2833, 5852165, 7782800>> >>,  \* 4334: a = 0.6483801351066604; b = 0.2450953312157051; v = 0.2833585216577828e-3
    <<6, 78140707, 364474, <<2738, 1652369, 6287800>> >>,  \* 4338: a = 0.5103616577251688; b = 0.3485560643800719e-1; v = 0.2738165236962878e-3
    <<6, 90972516, 1481070, <<2778, 3652082, 318000>> >>,  \* 4342: a = 0.5506738792580681; b = 0.7026308631512033e-1; v = 0.2778365208203180e-3
    <<6, 104061212, 3364666, <<2807, 8529404, 1896600>> >>,  \* 4346: a = 0.5889573040995292; b = 0.1059035061296403; v = 0.2807852940418966e-3
    <<6, 117249068, 6005180, <<2827, 2459496, 7470500>> >>,  \* 4350: a = 0.6251641589516930; b = 0.1414823925236026; v = 0.2827245949674705e-3
    <<6, 130379803, 9369071, <<2837, 3423448, 2982800>> >>,  \* 4354: a = 0.6592414921570178; b = 0.1767207908214530; v = 0.2837342344829828e-3
    <<6, 105505873, 376413, <<2809, 2339076, 1098100>> >>,  \* 4358: a = 0.5930314017533384; b = 0.3542189339561672e-1; v = 0.2809233907610981e-3
    <<6, 119441192, 1516381, <<2829, 9308097, 4269400>> >>,  \* 4362: a = 0.6309812253390175; b = 0.7109574040369549e-1; v = 0.2829930809742694e-3
    <<6, 133318508, 3417130, <<2841, 978741, 1147900>> >>,  \* 4366: a = 0.6666296011353230; b = 0.1067259792282730; v = 0.2841097874111479e-3
    <<6, 134819395, 382230, <<2843, 4552060, 878300>> >>   \* 4370: a = 0.6703715271049922; b = 0.3569455268820809e-1; v = 0.2843455206008783e-3
  >>

\* ld4334 (lines 4376-4813): a = b = 0.0, n = 0, then one row per "n = n + gen_oh(...)"
ld4334 ==
  <<
    <<1, Keep, Keep, <<144, 9063022, 5378830>> >>,  \* 4412: v = 0.1449063022537883e-4
    <<3, Keep, Keep, <<2546, 3773298, 2842400>> >>,  \* 4414: v = 0.2546377329828424e-3
    <<4, 64202, Keep, <<601, 8432961, 874960>> >>,  \* 4417: a = 0.1462896151831013e-1; v = 0.6018432961087496e-4
    <<4, 426351, Keep, <<1002, 2865832, 6367300>> >>,  \* 4420: a = 0.3769840812493139e-1; v = 0.1002286583263673e-3
    <<4, 1277152, Keep, <<1315, 2229310, 2809300>> >>,  \* 4423: a = 0.6524701904096891e-1; v = 0.1315222931028093e-3
    <<4, 2742120, Keep, <<1564, 2137468, 7672400>> >>,  \* 4426: a = 0.9560543416134648e-1; v = 0.1564213746876724e-3
    <<4, 4902428, Keep, <<1765, 1188415, 773600>> >>,  \* 4429: a = 0.1278335898929198; v = 0.1765118841507736e-3
    <<4, 7806237, Keep, <<1928, 7370993, 1108000>> >>,  \* 4432: a = 0.1613096104466031; v = 0.1928737099311080e-3
    <<4, 11475534, Keep, <<2062, 6585342, 6327000>> >>,  \* 4435: a = 0.1955806225745371; v = 0.2062658534263270e-3
    <<4, 15910532, Keep, <<2172, 3954459, 5378700>> >>,  \* 4438: a = 0.2302935218498028; v = 0.2172395445953787e-3
    <<4, 21092699, Keep, <<2262, 761888, 7604700>> >>,  \* 4441: a = 0.2651584344113027; v = 0.2262076188876047e-3
    <<4, 26986984, Keep, <<2334, 8856994, 6239700>> >>,  \* 4444: a = 0.2999276825183209; v = 0.2334885699462397e-3
    <<4, 33543571, Keep, <<2393, 3552731, 7920300>> >>,  \* 4447: a = 0.3343828669718798; v = 0.2393355273179203e-3
    <<4, 40699323, Keep, <<2439, 5592004, 6886300>> >>,  \* 4450: a = 0.3683265013750518; v = 0.2439559200468863e-3
    <<4, 48379062, Keep, <<2475, 2518660, 6000200>> >>,  \* 4453: a = 0.4015763206518108; v = 0.2475251866060002e-3
    <<4, 56496698, Keep, <<2501, 9655581, 5877300>> >>,  \* 4456: a = 0.4339612026399770; v = 0.2501965558158773e-3
    <<4, 64956271, Keep, <<2521, 814079, 2592500>> >>,  \* 4459: a = 0.4653180651114582; v = 0.2521081407925925e-3
    <<4, 73652904, Keep, <<2533, 8810023, 8808100>> >>,  \* 4462: a = 0.4954893331080803; v = 0.2533881002388081e-3
    <<4, 82473661, Keep, <<2541, 5829008, 4826100>> >>,  \* 4465: a = 0.5243207068924930; v = 0.2541582900848261e-3
    <<4, 91298312, Keep, <<2545, 3657375, 2586000>> >>,  \* 4468: a = 0.5516590479041704; v = 0.2545365737525860e-3
    <<4, 108445849, Keep, <<2545, 7269930, 6679900>> >>,  \* 4471: a = 0.6012371927804176; v = 0.2545726993066799e-3
    <<4, 116497561, Keep, <<2544, 4561974, 6555500>> >>,  \* 4474: a = 0.6231574466449819; v = 0.2544456197465555e-3
    <<4, 124012190, Keep, <<2543, 4815968, 8106400>> >>,  \* 4477: a = 0.6429416514181271; v = 0.2543481596881064e-3
    <<4, 130843372, Keep, <<2543, 5064514, 2919400>> >>,  \* 4480: a = 0.6604124272943595; v = 0.2543506451429194e-3
    <<4, 136843529, Keep, <<2544, 9056754, 9376300>> >>,  \* 4483: a = 0.6753851470408250; v = 0.2544905675493763e-3
    <<4, 141867750, Keep, <<2547, 6114073, 4442900>> >>,  \* 4486: a = 0.6876717970626160; v = 0.2547611407344429e-3
    <<4, 145780134, Keep, <<2551, 603754, 4886900>> >>,  \* 4489: a = 0.6970895061319234; v = 0.2551060375448869e-3
    <<4, 148462992, Keep, <<2554, 2919338, 1603900>> >>,  \* 4492: a = 0.7034746912553310; v = 0.2554291933816039e-3
    <<4, 149828197, Keep, <<2556, 2557106, 8634300>> >>,  \* 4495: a = 0.7067017217542295; v = 0.2556255710686343e-3
    <<5, 576116, Keep, <<904, 1339695, 1181950>> >>,  \* 4498: a = 0.4382223501131123e-1; v = 0.9041339695118195e-4
    <<5, 3746245, Keep, <<1438, 4263300, 7902200>> >>,  \* 4501: a = 0.1117474077400006; v = 0.1438426330079022e-3
    <<5, 10797571, Keep, <<1802, 5230898, 2051800>> >>,  \* 4504: a = 0.1897153252911440; v = 0.1802523089820518e-3
    <<5, 22260904, Keep, <<2060, 522905, 6549600>> >>,  \* 4507: a = 0.2724023009910331; v = 0.2060052290565496e-3
    <<5, 38173962, Keep, <<2245, 22489, 6746600>> >>,  \* 4510: a = 0.3567163308709902; v = 0.2245002248967466e-3
    <<5, 58206379, Keep, <<2377, 598477, 3115000>> >>,  \* 4513: a = 0.4404784483028087; v = 0.2377059847731150e-3
    <<5, 81739974, Keep, <<2468, 1189558, 8252500>> >>,  \* 4516: a = 0.5219833154161411; v = 0.2468118955882525e-3
    <<5, 107934485, Keep, <<2525, 4108729, 6652800>> >>,  \* 4519: a = 0.5998179868977553; v = 0.2525410872966528e-3
    <<5, 135790006, Keep, <<2553, 1014099, 3339700>> >>,  \* 4522: a = 0.6727803154548222; v = 0.2553101409933397e-3
    <<6, 1676970, 144300, <<1212, 8797336, 6863200>> >>,  \* 4526: a = 0.7476563943166086e-1; b = 0.2193168509461185e-1; v = 0.1212879733668632e-3
    <<6, 3469078, 698830, <<1472, 8728812, 7093100>> >>,  \* 4530: a = 0.1075341482001416; b = 0.4826419281533887e-1; v = 0.1472872881270931e-3
    <<6, 6018099, 1802429, <<1686, 8466010, 1082800>> >>,  \* 4534: a = 0.1416344885203259; b = 0.7751191883575742e-1; v = 0.1686846601010828e-3
    <<6, 9359715, 3548348, <<1862, 6984146, 6020800>> >>,  \* 4538: a = 0.1766325315388586; b = 0.1087558139247680; v = 0.1862698414660208e-3
    <<6, 13505395, 5995315, <<2007, 4309569, 9186100>> >>,  \* 4542: a = 0.2121744174481514; b = 0.1413661374253096; v = 0.2007430956991861e-3
    <<6, 18446282, 9174571, <<2126, 5681253, 9479600>> >>,  \* 4546: a = 0.2479669443408145; b = 0.1748768214258880; v = 0.2126568125394796e-3
    <<6, 24155929, 13094476, <<2224, 3946033, 7211300>> >>,  \* 4550: a = 0.2837600452294113; b = 0.2089216406612073; v = 0.2224394603372113e-3
    <<6, 30592356, 17743692, <<2304, 2645226, 7313500>> >>,  \* 4554: a = 0.3193344933193984; b = 0.2431987685545972; v = 0.2304264522673135e-3
    <<6, 37699702, 23093502, <<2368, 8542884, 2408700>> >>,  \* 4558: a = 0.3544935442438745; b = 0.2774497054377770; v = 0.2368854288424087e-3
    <<6, 45409650, 29099590, <<2420, 3520894, 6177200>> >>,  \* 4562: a = 0.3890571932288154; b = 0.3114460356156915; v = 0.2420352089461772e-3
    <<6, 53642697, 35703502, <<2460, 5971130, 8129500>> >>,  \* 4566: a = 0.4228581214259090; b = 0.3449806851913012; v = 0.2460597113081295e-3
    <<6, 62309335, 42833877, <<2491, 1819122, 5768700>> >>,  \* 4570: a = 0.4557387211304052; b = 0.3778618641248256; v = 0.2491181912257687e-3
    <<6, 71311148, 50407528, <<2513, 5281942, 585700>> >>,  \* 4574: a = 0.4875487950541643; b = 0.4099086391698978; v = 0.2513528194205857e-3
    <<6, 80541854, 58330407, <<2528, 9430966, 9322000>> >>,  \* 4578: a = 0.5181436529962997; b = 0.4409474925853973; v = 0.2528943096693220e-3
    <<6, 89888251, 66498462, <<2538, 6603684, 8813600>> >>,  \* 4582: a = 0.5473824095600661; b = 0.4708094517711291; v = 0.2538660368488136e-3
    <<6, 99231092, 74798390, <<2543, 8686482, 9902200>> >>,  \* 4586: a = 0.5751263398976174; b = 0.4993275140354637; v = 0.2543868648299022e-3
    <<6, 6655971, 202704, <<1642, 5955378, 2518300>> >>,  \* 4590: a = 0.1489515746840028; b = 0.2599381993267017e-1; v = 0.1642595537825183e-3
    <<6, 10419646, 900677, <<1818, 2466598, 4930800>> >>,  \* 4594: a = 0.1863656444351767; b = 0.5479286532462190e-1; v = 0.1818246659849308e-3
    <<6, 15034029, 2196546, <<1966, 5656494, 9242000>> >>,  \* 4598: a = 0.2238602880356348; b = 0.8556763251425254e-1; v = 0.1966565649492420e-3
    <<6, 20478970, 4157808, <<2090, 6779056, 5799100>> >>,  \* 4602: a = 0.2612723375728160; b = 0.1177257802267011; v = 0.2090677905657991e-3
    <<6, 26718730, 6823716, <<2193, 8204095, 1050400>> >>,  \* 4606: a = 0.2984332990206190; b = 0.1508168456192700; v = 0.2193820409510504e-3
    <<6, 33703420, 10209882, <<2278, 8708276, 6192800>> >>,  \* 4610: a = 0.3351786584663333; b = 0.1844801892177727; v = 0.2278870827661928e-3
    <<6, 41370370, 14311471, <<2348, 2831922, 8209000>> >>,  \* 4614: a = 0.3713505522209120; b = 0.2184145236087598; v = 0.2348283192282090e-3
    <<6, 49645411, 19105529, <<2404, 1397555, 8147700>> >>,  \* 4618: a = 0.4067981098954663; b = 0.2523590641486229; v = 0.2404139755581477e-3
    <<6, 58444097, 24552753, <<2448, 2274077, 6073400>> >>,  \* 4622: a = 0.4413769993687534; b = 0.2860812976901373; v = 0.2448227407760734e-3
    <<6, 67672885, 30598905, <<2482, 1104555, 9257300>> >>,  \* 4626: a = 0.4749487182516394; b = 0.3193686757808996; v = 0.2482110455592573e-3
    <<6, 77230282, 37175993, <<2507, 1923977, 7410300>> >>,  \* 4630: a = 0.5073798105075426; b = 0.3520226949547602; v = 0.2507192397774103e-3
    <<6, 87007937, 44203269, <<2524, 7659685, 3488000>> >>,  \* 4634: a = 0.5385410448878654; b = 0.3838544395667890; v = 0.2524765968534880e-3
    <<6, 96891695, 51588100, <<2536, 523885, 3942500>> >>,  \* 4638: a = 0.5683065353670530; b = 0.4146810037640963; v = 0.2536052388539425e-3
    <<6, 106762559, 59226721, <<2542, 2305880, 3306800>> >>,  \* 4642: a = 0.5965527620663510; b = 0.4443224094681121; v = 0.2542230588033068e-3
    <<6, 15859344, 246377, <<1944, 8170130, 4789600>> >>,  \* 4646: a = 0.2299227700856157; b = 0.2865757664057584e-1; v = 0.1944817013047896e-3
    <<6, 21801253, 1052608, <<2067, 8623627, 4663500>> >>,  \* 4650: a = 0.2695752998553267; b = 0.5923421684485993e-1; v = 0.2067862362746635e-3
    <<6, 28573497, 2494038, <<2172, 4407346, 4911400>> >>,  \* 4654: a = 0.3086178716611389; b = 0.9117817776057715e-1; v = 0.2172440734649114e-3
    <<6, 36115411, 4617219, <<2260, 1259917, 2342300>> >>,  \* 4658: a = 0.3469649871659077; b = 0.1240593814082605; v = 0.2260125991723423e-3
    <<6, 44355618, 7444446, <<2332, 6550086, 8952300>> >>,  \* 4662: a = 0.3845153566319655; b = 0.1575272058259175; v = 0.2332655008689523e-3
    <<6, 53212725, 10976930, <<2391, 6996815, 3245800>> >>,  \* 4666: a = 0.4211600033403215; b = 0.1912845163525413; v = 0.2391699681532458e-3
    <<6, 62596250, 15197089, <<2438, 8015282, 7392800>> >>,  \* 4670: a = 0.4567867834329882; b = 0.2250710177858171; v = 0.2438801528273928e-3
    <<6, 72407676, 20070277, <<2475, 3705042, 6066500>> >>,  \* 4674: a = 0.4912829319232061; b = 0.2586521303440910; v = 0.2475370504260665e-3
    <<6, 82541555, 25546137, <<2502, 7072356, 4057400>> >>,  \* 4678: a = 0.5245364793303812; b = 0.2918112242865407; v = 0.2502707235640574e-3
    <<6, 92886633, 31559694, <<2522, 317010, 5424100>> >>,  \* 4682: a = 0.5564369788915756; b = 0.3243439239067890; v = 0.2522031701054241e-3
    <<6, 103326951, 38032267, <<2534, 5112699, 7878400>> >>,  \* 4686: a = 0.5868757697775287; b = 0.3560536787835351; v = 0.2534511269978784e-3
    <<6, 113742899, 44872224, <<2541, 2849149, 5515100>> >>,  \* 4690: a = 0.6157458853519617; b = 0.3867480821242581; v = 0.2541284914955151e-3
    <<6, 29549814, 279327, <<2161, 5092506, 8839400>> >>,  \* 4694: a = 0.3138461110672113; b = 0.3051374637507278e-1; v = 0.2161509250688394e-3
    <<6, 37647831, 1167047, <<2248, 7785134, 3785200>> >>,  \* 4698: a = 0.3542495872050569; b = 0.6237111233730755e-1; v = 0.2248778513437852e-3
    <<6, 46470421, 2716756, <<2322, 3888034, 461700>> >>,  \* 4702: a = 0.3935751553120181; b = 0.9516223952401907e-1; v = 0.2322388803404617e-3
    <<6, 55925907, 4957279, <<2383, 2654710, 135500>> >>,  \* 4706: a = 0.4317634668111147; b = 0.1285467341508517; v = 0.2383265471001355e-3
    <<6, 65915546, 7895756, <<2432, 4766750, 1952500>> >>,  \* 4710: a = 0.4687413842250821; b = 0.1622318931656033; v = 0.2432476675019525e-3
    <<6, 76334108, 11519875, <<2471, 1222237, 5067400>> >>,  \* 4714: a = 0.5044274237060283; b = 0.1959581153836453; v = 0.2471122223750674e-3
    <<6, 87070752, 15799534, <<2500, 2917524, 8687000>> >>,  \* 4718: a = 0.5387354077925727; b = 0.2294888081183837; v = 0.2500291752486870e-3
    <<6, 98010042, 20688119, <<2521, 559427, 6468200>> >>,  \* 4722: a = 0.5715768898356105; b = 0.2626031152713945; v = 0.2521055942764682e-3
    <<6, 109033038, 26123505, <<2534, 4727855, 7550300>> >>,  \* 4726: a = 0.6028627200136111; b = 0.2950904075286713; v = 0.2534472785575503e-3
    <<6, 120018386, 32028854, <<2541, 5997130, 8012100>> >>,  \* 4730: a = 0.6325039812653463; b = 0.3267458451113286; v = 0.2541599713080121e-3
    <<6, 47568654, 304000, <<2317, 3809758, 6293600>> >>,  \* 4734: a = 0.3981986708423407; b = 0.3183291458749821e-1; v = 0.2317380975862936e-3
    <<6, 57626576, 1251773, <<2378, 5507337, 1977500>> >>,  \* 4738: a = 0.4382791182133300; b = 0.6459548193880908e-1; v = 0.2378550733719775e-3
    <<6, 68236752, 2878706, <<2428, 8844567, 3911800>> >>,  \* 4742: a = 0.4769233057218166; b = 0.9795757037087952e-1; v = 0.2428884456739118e-3
    <<6, 79284211, 5197994, <<2469, 26557, 5729200>> >>,  \* 4746: a = 0.5140823911194238; b = 0.1316307235126655; v = 0.2469002655757292e-3
    <<6, 90650296, 8202747, <<2499, 6575742, 6585100>> >>,  \* 4750: a = 0.5496977833862983; b = 0.1653556486358704; v = 0.2499657574265851e-3
    <<6, 102213364, 11867548, <<2521, 6761684, 8608200>> >>,  \* 4754: a = 0.5837047306512727; b = 0.1988931724126510; v = 0.2521676168486082e-3
    <<6, 113849720, 16149630, <<2535, 9356626, 4533400>> >>,  \* 4758: a = 0.6160349566926879; b = 0.2320174581438950; v = 0.2535935662645334e-3
    <<6, 125434659, 20989766, <<2543, 3567433, 6321400>> >>,  \* 4762: a = 0.6466185353209440; b = 0.2645106562168662; v = 0.2543356743363214e-3
    <<6, 69432405, 321949, <<2427, 3532852, 153500>> >>,  \* 4766: a = 0.4810835158795404; b = 0.3275917807743992e-1; v = 0.2427353285201535e-3
    <<6, 81117661, 1311773, <<2468, 2580397, 4438600>> >>,  \* 4770: a = 0.5199925041324341; b = 0.6612546183967181e-1; v = 0.2468258039744386e-3
    <<6, 93132114, 2988909, <<2500, 609564, 4031000>> >>,  \* 4774: a = 0.5571717692207494; b = 0.9981498331474143e-1; v = 0.2500060956440310e-3
    <<6, 105344935, 5352179, <<2523, 2383654, 2097900>> >>,  \* 4778: a = 0.5925789250836378; b = 0.1335687001410374; v = 0.2523238365420979e-3
    <<6, 117625102, 8381179, <<2538, 3992602, 5284600>> >>,  \* 4782: a = 0.6261658523859670; b = 0.1671444402896463; v = 0.2538399260252846e-3
    <<6, 129842268, 12037306, <<2546, 2559272, 6806900>> >>,  \* 4786: a = 0.6578811126669331; b = 0.2003106382156076; v = 0.2546255927268069e-3
    <<6, 94403665, 334167, <<2500, 5833600, 4844900>> >>,  \* 4790: a = 0.5609624612998100; b = 0.3337500940231335e-1; v = 0.2500583360048449e-3
    <<6, 107279753, 1350220, <<2524, 7776382, 6020300>> >>,  \* 4794: a = 0.5979959659984670; b = 0.6708750335901803e-1; v = 0.2524777638260203e-3
    <<6, 120226591, 3052985, <<2540, 9511938, 6065600>> >>,  \* 4798: a = 0.6330523711054002; b = 0.1008792126424850; v = 0.2540951193860656e-3
    <<6, 133105204, 5427481, <<2549, 5240850, 2747200>> >>,  \* 4802: a = 0.6660960998103972; b = 0.1345050343171794; v = 0.2549524085027472e-3
    <<6, 121554354, 341273, <<2542, 5695070, 915800>> >>,  \* 4806: a = 0.6365384364585819; b = 0.3372799460737052e-1; v = 0.2542569507009158e-3
    <<6, 135112334, 1369002, <<2552, 1141275, 8037600>> >>   \* 4810: a = 0.6710994302899275; b = 0.6755249309678028e-1; v = 0.2552114127580376e-3
  >>

\* ld4802 (lines 4816-5294): a = b = 0.0, n = 0, then one row per "n = n + gen_oh(...)"
ld4802 ==
  <<
    <<1, Keep, Keep, <<968, 7521879, 4207050>> >>,  \* 4852: v = 0.9687521879420705e-4
    <<2, Keep, Keep, <<2307, 8978953, 6791800>> >>,  \* 4854: v = 0.2307897895367918e-3
    <<3, Keep, Keep, <<2297, 3108524, 9855800>> >>,  \* 4856: v = 0.2297310852498558e-3
    <<4, 163669, Keep, <<738, 6265944, 19190>> >>,  \* 4859: a = 0.2335728608887064e-1; v = 0.7386265944001919e-4
    <<4, 568455, Keep, <<825, 7977698, 5422100>> >>,  \* 4862: a = 0.4352987836550653e-1; v = 0.8257977698542210e-4
    <<4, 1243899, Keep, <<970, 6044762, 576300>> >>,  \* 4865: a = 0.6439200521088801e-1; v = 0.9706044762057630e-4
    <<4, 2432130, Keep, <<1302, 3938471, 1700300>> >>,  \* 4868: a = 0.9003943631993181e-1; v = 0.1302393847117003e-3
    <<4, 4296320, Keep, <<1541, 9570046, 96800>> >>,  \* 4871: a = 0.1196706615548473; v = 0.1541957004600968e-3
    <<4, 6855850, Keep, <<1704, 4597700, 9219900>> >>,  \* 4874: a = 0.1511715412838134; v = 0.1704459770092199e-3
    <<4, 10112499, Keep, <<1827, 3748909, 4290600>> >>,  \* 4877: a = 0.1835982828503801; v = 0.1827374890942906e-3
    <<4, 14062731, Keep, <<1926, 3608174, 3610700>> >>,  \* 4880: a = 0.2165081259155405; v = 0.1926360817436107e-3
    <<4, 18693174, Keep, <<2008, 102394, 9483300>> >>,  \* 4883: a = 0.2496208720417563; v = 0.2008010239494833e-3
    <<4, 23979191, Keep, <<2075, 6359832, 917500>> >>,  \* 4886: a = 0.2827200673567900; v = 0.2075635983209175e-3
    <<4, 29884622, Keep, <<2131, 3066386, 9090900>> >>,  \* 4889: a = 0.3156190823994346; v = 0.2131306638690909e-3
    <<4, 36362042, Keep, <<2176, 5623299, 3733500>> >>,  \* 4892: a = 0.3481476793749115; v = 0.2176562329937335e-3
    <<4, 43353433, Keep, <<2212, 6822629, 9101800>> >>,  \* 4895: a = 0.3801466086947226; v = 0.2212682262991018e-3
    <<4, 50791086, Keep, <<2240, 7995156, 6856500>> >>,  \* 4898: a = 0.4114652119634011; v = 0.2240799515668565e-3
    <<4, 58598560, Keep, <<2261, 9598161, 8752500>> >>,  \* 4901: a = 0.4419598786519751; v = 0.2261959816187525e-3
    <<4, 66691580, Keep, <<2277, 1563688, 885500>> >>,  \* 4904: a = 0.4714925949329543; v = 0.2277156368808855e-3
    <<4, 74978821, Keep, <<2287, 3517721, 2833600>> >>,  \* 4907: a = 0.4999293972879466; v = 0.2287351772128336e-3
    <<4, 83362570, Keep, <<2293, 4908140, 8408500>> >>,  \* 4910: a = 0.5271387221431248; v = 0.2293490814084085e-3
    <<4, 91739275, Keep, <<2296, 5053123, 7627300>> >>,  \* 4913: a = 0.5529896780837761; v = 0.2296505312376273e-3
    <<4, 108030822, Keep, <<2296, 7938323, 1875600>> >>,  \* 4916: a = 0.6000856099481712; v = 0.2296793832318756e-3
    <<4, 115713248, Keep, <<2295, 7854438, 4297400>> >>,  \* 4919: a = 0.6210562192785175; v = 0.2295785443842974e-3
    <<4, 122924774, Keep, <<2295, 179315, 2910200>> >>,  \* 4922: a = 0.6401165879934240; v = 0.2295017931529102e-3
    <<4, 129539802, Keep, <<2295, 596381, 8486800>> >>,  \* 4925: a = 0.6571144029244334; v = 0.2295059638184868e-3
    <<4, 135431288, Keep, <<2296, 2323432, 3736200>> >>,  \* 4928: a = 0.6718910821718863; v = 0.2296232343237362e-3
    <<4, 140473607, Keep, <<2298, 5301787, 4077100>> >>,  \* 4931: a = 0.6842845591099010; v = 0.2298530178740771e-3
    <<4, 144547164, Keep, <<2301, 5797902, 8050100>> >>,  \* 4934: a = 0.6941353476269816; v = 0.2301579790280501e-3
    <<4, 147545044, Keep, <<2304, 6904049, 9651300>> >>,  \* 4937: a = 0.7012965242212991; v = 0.2304690404996513e-3
    <<4, 149381367, Keep, <<2307, 279959, 710200>> >>,  \* 4940: a = 0.7056471428242644; v = 0.2307027995907102e-3
    <<5, 633575, Keep, <<931, 2274696, 6710920>> >>,  \* 4943: a = 0.4595557643585895e-1; v = 0.9312274696671092e-4
    <<5, 3303197, Keep, <<1199, 9193858, 7692600>> >>,  \* 4946: a = 0.1049316742435023; v = 0.1199919385876926e-3
    <<5, 9436427, Keep, <<1598, 391388, 7769000>> >>,  \* 4949: a = 0.1773548879549274; v = 0.1598039138877690e-3
    <<5, 19646539, Keep, <<1822, 2537635, 7490000>> >>,  \* 4952: a = 0.2559071411236127; v = 0.1822253763574900e-3
    <<5, 33831652, Keep, <<1988, 5795936, 5504000>> >>,  \* 4955: a = 0.3358156837985898; v = 0.1988579593655040e-3
    <<5, 51812912, Keep, <<2112, 6201025, 3330700>> >>,  \* 4958: a = 0.4155835743763893; v = 0.2112620102533307e-3
    <<5, 73148400, Keep, <<2201, 5948876, 9900700>> >>,  \* 4961: a = 0.4937894296167472; v = 0.2201594887699007e-3
    <<5, 97181897, Keep, <<2261, 6225908, 9503600>> >>,  \* 4964: a = 0.5691569694793316; v = 0.2261622590895036e-3
    <<5, 123104391, Keep, <<2296, 4584534, 3570500>> >>,  \* 4967: a = 0.6405840854894251; v = 0.2296458453435705e-3
    <<6, 1618530, 142290, <<1006, 69902, 6700000>> >>,  \* 4971: a = 0.7345133894143348e-1; b = 0.2177844081486067e-1; v = 0.1006006990267000e-3
    <<6, 3059451, 632143, <<1227, 6766896, 3587600>> >>,  \* 4975: a = 0.1009859834044931; b = 0.4590362185775188e-1; v = 0.1227676689635876e-3
    <<6, 5261229, 1579078, <<1467, 8642802, 7011700>> >>,  \* 4979: a = 0.1324289619748758; b = 0.7255063095690877e-1; v = 0.1467864280270117e-3
    <<6, 8209849, 3107906, <<1644, 1789121, 123200>> >>,  \* 4983: a = 0.1654272109607127; b = 0.1017825451960684; v = 0.1644178912101232e-3
    <<6, 11889462, 5272062, <<1777, 6648907, 1896100>> >>,  \* 4987: a = 0.1990767186776461; b = 0.1325652320980364; v = 0.1777664890718961e-3
    <<6, 16288461, 8096034, <<1884, 8256645, 1669000>> >>,  \* 4991: a = 0.2330125945523278; b = 0.1642765374496765; v = 0.1884825664516690e-3
    <<6, 21387991, 11587924, <<1973, 2692464, 5384800>> >>,  \* 4995: a = 0.2670080611108287; b = 0.1965360374337889; v = 0.1973269246453848e-3
    <<6, 27157791, 15742287, <<2046, 7677758, 5532800>> >>,  \* 4999: a = 0.3008753376294316; b = 0.2290726770542238; v = 0.2046767775855328e-3
    <<6, 33556551, 20540501, <<2107, 6001259, 1804000>> >>,  \* 5003: a = 0.3344475596167860; b = 0.2616645495370823; v = 0.2107600125918040e-3
    <<6, 40532526, 25951103, <<2157, 4163622, 6682900>> >>,  \* 5007: a = 0.3675709724070786; b = 0.2941150728843141; v = 0.2157416362266829e-3
    <<6, 48024024, 31930552, <<2197, 5578169, 2072100>> >>,  \* 5011: a = 0.4001000887587812; b = 0.3262440400919066; v = 0.2197557816920721e-3
    <<6, 55960152, 38424187, <<2229, 1926118, 3543700>> >>,  \* 5015: a = 0.4318956350436028; b = 0.3578835350611916; v = 0.2229192611835437e-3
    <<6, 64261790, 45367173, <<2253, 3851102, 1277500>> >>,  \* 5019: a = 0.4628239056795531; b = 0.3888751854043678; v = 0.2253385110212775e-3
    <<6, 72842638, 52685346, <<2271, 1371075, 4877400>> >>,  \* 5023: a = 0.4927563229773636; b = 0.4190678003222840; v = 0.2271137107548774e-3
    <<6, 81610177, 60295951, <<2283, 4140929, 1752500>> >>,  \* 5027: a = 0.5215687136707969; b = 0.4483151836883852; v = 0.2283414092917525e-3
    <<6, 90466499, 68108261, <<2291, 1616731, 3007700>> >>,  \* 5031: a = 0.5491402346984905; b = 0.4764740676087880; v = 0.2291161673130077e-3
    <<6, 99308983, 76024112, <<2295, 3139085, 7659800>> >>,  \* 5035: a = 0.5753520160126075; b = 0.5034021310998277; v = 0.2295313908576598e-3
    <<6, 5782350, 177941, <<1438, 2047213, 5903100>> >>,  \* 5039: a = 0.1388326356417754; b = 0.2435436510372806e-1; v = 0.1438204721359031e-3
    <<6, 9121332, 786093, <<1607, 7380254, 9525700>> >>,  \* 5043: a = 0.1743686900537244; b = 0.5118897057342652e-1; v = 0.1607738025495257e-3
    <<6, 13226687, 1927060, <<1741, 4838535, 2837900>> >>,  \* 5047: a = 0.2099737037950268; b = 0.8014695048539634e-1; v = 0.1741483853528379e-3
    <<6, 18073602, 3663857, <<1851, 9184675, 1915100>> >>,  \* 5051: a = 0.2454492590908548; b = 0.1105117874155699; v = 0.1851918467519151e-3
    <<6, 23641440, 6031751, <<1944, 6286380, 7061300>> >>,  \* 5055: a = 0.2807219257864278; b = 0.1417950531570966; v = 0.1944628638070613e-3
    <<6, 29896959, 9047390, <<2022, 4954462, 7515200>> >>,  \* 5059: a = 0.3156842271975842; b = 0.1736604945719597; v = 0.2022495446275152e-3
    <<6, 36793923, 12711851, <<2087, 4623824, 3851400>> >>,  \* 5063: a = 0.3502090945177752; b = 0.2058466324693981; v = 0.2087462382438514e-3
    <<6, 44275627, 17011544, <<2141, 747548, 1830800>> >>,  \* 5067: a = 0.3841684849519686; b = 0.2381284261195919; v = 0.2141074754818308e-3
    <<6, 52276154, 21919134, <<2184, 6409137, 4816200>> >>,  \* 5071: a = 0.4174372367906016; b = 0.2703031270422569; v = 0.2184640913748162e-3
    <<6, 60721018, 27394654, <<2219, 3091652, 2032900>> >>,  \* 5075: a = 0.4498926465011892; b = 0.3021845683091309; v = 0.2219309165220329e-3
    <<6, 69528012, 33386555, <<2246, 1231183, 4062400>> >>,  \* 5079: a = 0.4814146229807701; b = 0.3335993355165720; v = 0.2246123118340624e-3
    <<6, 78608294, 39832573, <<2266, 627669, 1512500>> >>,  \* 5083: a = 0.5118863625734701; b = 0.3643833735518232; v = 0.2266062766915125e-3
    <<6, 87867526, 46660428, <<2280, 729522, 3079600>> >>,  \* 5087: a = 0.5411947455119144; b = 0.3943789541958179; v = 0.2280072952230796e-3
    <<6, 97206889, 53788401, <<2289, 820252, 258300>> >>,  \* 5091: a = 0.5692301500357246; b = 0.4234320144403542; v = 0.2289082025202583e-3
    <<6, 106523938, 61125824, <<2294, 126951, 2002500>> >>,  \* 5095: a = 0.5958857204139576; b = 0.4513897947419260; v = 0.2294012695120025e-3
    <<6, 13948505, 215669, <<1722, 4344887, 3694700>> >>,  \* 5099: a = 0.2156270284785766; b = 0.2681225755444491e-1; v = 0.1722434488736947e-3
    <<6, 19238922, 926573, <<1830, 2374214, 5509100>> >>,  \* 5103: a = 0.2532385054909710; b = 0.5557495747805614e-1; v = 0.1830237421455091e-3
    <<6, 25274644, 2203022, <<1923, 8553499, 9763300>> >>,  \* 5107: a = 0.2902564617771537; b = 0.8569368062950249e-1; v = 0.1923855349997633e-3
    <<6, 32019471, 4088240, <<2004, 678619, 3627100>> >>,  \* 5111: a = 0.3266979823143256; b = 0.1167367450324135; v = 0.2004067861936271e-3
    <<6, 39422737, 6605539, <<2071, 8172973, 5426300>> >>,  \* 5115: a = 0.3625039627493614; b = 0.1483861994003304; v = 0.2071817297354263e-3
    <<6, 47421886, 9761316, <<2128, 2508341, 210300>> >>,  \* 5119: a = 0.3975838937548699; b = 0.1803821503011405; v = 0.2128250834102103e-3
    <<6, 55945635, 13546403, <<2174, 5137194, 4010200>> >>,  \* 5123: a = 0.4318396099009774; b = 0.2124962965666424; v = 0.2174513719440102e-3
    <<6, 64915122, 17937330, <<2211, 6618391, 5021400>> >>,  \* 5127: a = 0.4651706555732742; b = 0.2445221837805913; v = 0.2211661839150214e-3
    <<6, 74244492, 22897554, <<2240, 6652578, 1310200>> >>,  \* 5131: a = 0.4974752649620969; b = 0.2762701224322987; v = 0.2240665257813102e-3
    <<6, 83841804, 28378459, <<2262, 4395166, 3262000>> >>,  \* 5135: a = 0.5286517579627517; b = 0.3075627775211328; v = 0.2262439516632620e-3
    <<6, 93610228, 34320085, <<2277, 8745572, 3186900>> >>,  \* 5139: a = 0.5586001195731895; b = 0.3382311089826877; v = 0.2277874557231869e-3
    <<6, 103449252, 40651687, <<2287, 8543144, 5499400>> >>,  \* 5143: a = 0.5872229902021319; b = 0.3681108834741399; v = 0.2287854314454994e-3
    <<6, 113255742, 47292168, <<2293, 2684996, 1557500>> >>,  \* 5147: a = 0.6144258616235123; b = 0.3970397446872839; v = 0.2293268499615575e-3
    <<6, 26137183, 246677, <<1912, 6282015, 2982800>> >>,  \* 5151: a = 0.2951676508064861; b = 0.2867499538750441e-1; v = 0.1912628201529828e-3
    <<6, 33368386, 1032960, <<1992, 4996722, 3870100>> >>,  \* 5155: a = 0.3335085485472725; b = 0.5867879341903510e-1; v = 0.1992499672238701e-3
    <<6, 41282545, 2409039, <<2061, 2755334, 5402700>> >>,  \* 5159: a = 0.3709561760636381; b = 0.8961099205022284e-1; v = 0.2061275533454027e-3
    <<6, 49810099, 4404127, <<2119, 3182159, 6857200>> >>,  \* 5163: a = 0.4074722861667498; b = 0.1211627927626297; v = 0.2119318215968572e-3
    <<6, 58872671, 7029577, <<2167, 4165818, 8265200>> >>,  \* 5167: a = 0.4429923648839117; b = 0.1530748903554898; v = 0.2167416581882652e-3
    <<6, 68385490, 10280563, <<2206, 4307305, 1660000>> >>,  \* 5171: a = 0.4774428052721736; b = 0.1851176436721877; v = 0.2206430730516600e-3
    <<6, 78258030, 14137497, <<2237, 1869386, 9952300>> >>,  \* 5175: a = 0.5107446539535904; b = 0.2170829107658179; v = 0.2237186938699523e-3
    <<6, 88394482, 18567248, <<2260, 4800750, 3288400>> >>,  \* 5179: a = 0.5428151370542935; b = 0.2487786689026271; v = 0.2260480075032884e-3
    <<6, 98694739, 23524031, <<2277, 988845, 5854200>> >>,  \* 5183: a = 0.5735699292556964; b = 0.2800239952795016; v = 0.2277098884558542e-3
    <<6, 109055704, 28950015, <<2287, 8457151, 967100>> >>,  \* 5187: a = 0.6029253794562866; b = 0.3106445702878119; v = 0.2287845715109671e-3
    <<6, 119372554, 34775732, <<2293, 5472682, 3629400>> >>,  \* 5191: a = 0.6307998987073145; b = 0.3404689500841194; v = 0.2293547268236294e-3
    <<6, 42247197, 269486, <<2056, 738398, 5252800>> >>,  \* 5195: a = 0.3752652273692719; b = 0.2997145098184479e-1; v = 0.2056073839852528e-3
    <<6, 51304199, 1111447, <<2114, 2358658, 3187600>> >>,  \* 5199: a = 0.4135383879344028; b = 0.6086725898678011e-1; v = 0.2114235865831876e-3
    <<6, 60915187, 2560690, <<2163, 1756297, 7055100>> >>,  \* 5203: a = 0.4506113885153907; b = 0.9238849548435643e-1; v = 0.2163175629770551e-3
    <<6, 70987207, 4633556, <<2203, 3921581, 1165000>> >>,  \* 5207: a = 0.4864401554606072; b = 0.1242786603851851; v = 0.2203392158111650e-3
    <<6, 81423175, 7329720, <<2235, 4731768, 4783900>> >>,  \* 5211: a = 0.5209708076611709; b = 0.1563086731483386; v = 0.2235473176847839e-3
    <<6, 92122078, 10633638, <<2260, 241415, 123500>> >>,  \* 5215: a = 0.5541422135830122; b = 0.1882696509388506; v = 0.2260024141501235e-3
    <<6, 102979457, 14515684, <<2277, 6759293, 2918200>> >>,  \* 5219: a = 0.5858880915113817; b = 0.2199672979126059; v = 0.2277675929329182e-3
    <<6, 113888527, 18932926, <<2289, 1021122, 8483400>> >>,  \* 5223: a = 0.6161399390603444; b = 0.2512165482924867; v = 0.2289102112284834e-3
    <<6, 124741583, 23829606, <<2295, 279546, 2511800>> >>,  \* 5227: a = 0.6448296482255090; b = 0.2818368701871888; v = 0.2295027954625118e-3
    <<6, 61965520, 286252, <<2161, 2815898, 7999200>> >>,  \* 5231: a = 0.4544796274917948; b = 0.3088970405060312e-1; v = 0.2161281589879992e-3
    <<6, 72601167, 1168483, <<2201, 9804773, 9510200>> >>,  \* 5235: a = 0.4919389072146628; b = 0.6240947677636835e-1; v = 0.2201980477395102e-3
    <<6, 83613438, 2668147, <<2234, 9520665, 9316600>> >>,  \* 5239: a = 0.5279313026985183; b = 0.9430706144280313e-1; v = 0.2234952066593166e-3
    <<6, 94893862, 4789659, <<2260, 5400985, 2083800>> >>,  \* 5243: a = 0.5624169925571135; b = 0.1263547818770374; v = 0.2260540098520838e-3
    <<6, 106331938, 7521759, <<2279, 1579818, 9998800>> >>,  \* 5247: a = 0.5953484627093287; b = 0.1583430788822594; v = 0.2279157981899988e-3
    <<6, 117815742, 10838534, <<2291, 2969185, 6557100>> >>,  \* 5251: a = 0.6266730715339185; b = 0.1900748462555988; v = 0.2291296918565571e-3
    <<6, 129233210, 14700068, <<2297, 5337525, 3664900>> >>,  \* 5255: a = 0.6563363204278871; b = 0.2213599519592567; v = 0.2297533752536649e-3
    <<6, 84734113, 298149, <<2234, 9273564, 6599500>> >>,  \* 5259: a = 0.5314574716585696; b = 0.3152508811515374e-1; v = 0.2234927356465995e-3
    <<6, 96603764, 1207339, <<2261, 2880129, 8521900>> >>,  \* 5263: a = 0.5674614932298185; b = 0.6343865291465561e-1; v = 0.2261288012985219e-3
    <<6, 108638357, 2736937, <<2280, 8181609, 2368800>> >>,  \* 5267: a = 0.6017706004970264; b = 0.9551503504223951e-1; v = 0.2280818160923688e-3
    <<6, 120718883, 4880242, <<2293, 7732951, 8015900>> >>,  \* 5271: a = 0.6343471270264178; b = 0.1275440099801196; v = 0.2293773295180159e-3
    <<6, 132727141, 7615356, <<2300, 5287673, 3863400>> >>,  \* 5275: a = 0.6651494599127802; b = 0.1593252037671960; v = 0.2300528767338634e-3
    <<6, 109814215, 305769, <<2281, 8938550, 6566600>> >>,  \* 5279: a = 0.6050184986005704; b = 0.3192538338496105e-1; v = 0.2281893855065666e-3
    <<6, 122502571, 1229885, <<2295, 7204448, 4072700>> >>,  \* 5283: a = 0.6390163550880400; b = 0.6402824353962306e-1; v = 0.2295720444840727e-3
    <<6, 135120580, 2770451, <<2303, 2276490, 2675300>> >>,  \* 5287: a = 0.6711199107088448; b = 0.9609805077002909e-1; v = 0.2303227649026753e-3
    <<6, 136337579, 309480, <<2304, 8319132, 2711400>> >>   \* 5291: a = 0.6741354429572275; b = 0.3211853196273233e-1; v = 0.2304831913227114e-3
  >>

\* ld5294 (lines 5297-5818): a = b = 0.0, n = 0, then one row per "n = n + gen_oh(...)"
ld5294 ==
  <<
    <<1, Keep, Keep, <<908, 510764, 3081630>> >>,  \* 5333: v = 0.9080510764308163e-4
    <<3, Keep, Keep, <<2084, 8243619, 8779300>> >>,  \* 5335: v = 0.2084824361987793e-3
    <<4, 159150, Keep, <<501, 1105657, 2396160>> >>,  \* 5338: a = 0.2303261686261450e-1; v = 0.5011105657239616e-4
    <<4, 423498, Keep, <<594, 2520409, 6838540>> >>,  \* 5341: a = 0.3757208620162394e-1; v = 0.5942520409683854e-4
    <<4, 1016840, Keep, <<956, 4394826, 1097210>> >>,  \* 5344: a = 0.5821912033821852e-1; v = 0.9564394826109721e-4
    <<4, 2118377, Keep, <<1185, 5306571, 2633800>> >>,  \* 5347: a = 0.8403127529194872e-1; v = 0.1185530657126338e-3
    <<4, 3782901, Keep, <<1364, 5101142, 3033100>> >>,  \* 5350: a = 0.1122927798060578; v = 0.1364510114230331e-3
    <<4, 6050268, Keep, <<1505, 8288256, 541500>> >>,  \* 5353: a = 0.1420125319192987; v = 0.1505828825605415e-3
    <<4, 8941334, Keep, <<1619, 2987498, 6702300>> >>,  \* 5356: a = 0.1726396437341978; v = 0.1619298749867023e-3
    <<4, 12462412, Keep, <<1712, 4505042, 6778900>> >>,  \* 5359: a = 0.2038170058115696; v = 0.1712450504267789e-3
    <<4, 16607708, Keep, <<1789, 8910981, 6499900>> >>,  \* 5362: a = 0.2352849892876508; v = 0.1789891098164999e-3
    <<4, 21360489, Keep, <<1854, 4749556, 2979500>> >>,  \* 5365: a = 0.2668363354312461; v = 0.1854474955629795e-3
    <<4, 26693816, Keep, <<1908, 1486366, 7366100>> >>,  \* 5368: a = 0.2982941279900452; v = 0.1908148636673661e-3
    <<4, 32571133, Keep, <<1952, 3774052, 8183300>> >>,  \* 5371: a = 0.3295002922087076; v = 0.1952377405281833e-3
    <<4, 38946879, Keep, <<1988, 3492542, 8223200>> >>,  \* 5374: a = 0.3603094918363593; v = 0.1988349254282232e-3
    <<4, 45767178, Keep, <<2017, 798071, 6005000>> >>,  \* 5377: a = 0.3905857895173920; v = 0.2017079807160050e-3
    <<4, 52970557, Keep, <<2039, 4730827, 909400>> >>,  \* 5380: a = 0.4202005758160837; v = 0.2039473082709094e-3
    <<4, 60488653, Keep, <<2056, 3602792, 8895300>> >>,  \* 5383: a = 0.4490310061597227; v = 0.2056360279288953e-3
    <<4, 68246856, Keep, <<2068, 5258230, 6686500>> >>,  \* 5386: a = 0.4769586160311491; v = 0.2068525823066865e-3
    <<4, 76164885, Keep, <<2076, 7248775, 3448800>> >>,  \* 5389: a = 0.5038679887049750; v = 0.2076724877534488e-3
    <<4, 84157284, Keep, <<2081, 6942782, 3788500>> >>,  \* 5392: a = 0.5296454286519961; v = 0.2081694278237885e-3
    <<4, 92133851, Keep, <<2084, 1576312, 1932600>> >>,  \* 5395: a = 0.5541776207164850; v = 0.2084157631219326e-3
    <<4, 107657096, Keep, <<2084, 3815311, 2859300>> >>,  \* 5398: a = 0.5990467321921213; v = 0.2084381531128593e-3
    <<4, 115002794, Keep, <<2083, 4762771, 2930700>> >>,  \* 5401: a = 0.6191467096294587; v = 0.2083476277129307e-3
    <<4, 121931484, Keep, <<2082, 6861944, 5973200>> >>,  \* 5404: a = 0.6375251212901849; v = 0.2082686194459732e-3
    <<4, 128334985, Keep, <<2082, 4756861, 1241500>> >>,  \* 5407: a = 0.6540514381131168; v = 0.2082475686112415e-3
    <<4, 134103739, Keep, <<2083, 1398602, 8991500>> >>,  \* 5410: a = 0.6685899064391510; v = 0.2083139860289915e-3
    <<4, 139128832, Keep, <<2084, 7455618, 3123700>> >>,  \* 5413: a = 0.6810013009681648; v = 0.2084745561831237e-3
    <<4, 143305235, Keep, <<2087, 913133, 7589000>> >>,  \* 5416: a = 0.6911469578730340; v = 0.2087091313375890e-3
    <<4, 146536556, Keep, <<2089, 7184132, 9769700>> >>,  \* 5419: a = 0.6988956915141736; v = 0.2089718413297697e-3
    <<4, 148741229, Keep, <<2092, 33034, 7979300>> >>,  \* 5422: a = 0.7041335794868720; v = 0.2092003303479793e-3
    <<4, 149859457, Keep, <<2093, 3361482, 6324100>> >>,  \* 5425: a = 0.7067754398018567; v = 0.2093336148263241e-3
    <<5, 442453, Keep, <<759, 1708117, 3652670>> >>,  \* 5428: a = 0.3840368707853623e-1; v = 0.7591708117365267e-4
    <<5, 2902104, Keep, <<1083, 3839681, 6918600>> >>,  \* 5431: a = 0.9835485954117399e-1; v = 0.1083383968169186e-3
    <<5, 8324419, Keep, <<1403, 193952, 9251000>> >>,  \* 5434: a = 0.1665774947612998; v = 0.1403019395292510e-3
    <<5, 17362211, Keep, <<1615, 9701792, 8643600>> >>,  \* 5437: a = 0.2405702335362910; v = 0.1615970179286436e-3
    <<5, 30056817, Keep, <<1771, 1441875, 491100>> >>,  \* 5440: a = 0.3165270770189046; v = 0.1771144187504911e-3
    <<5, 46273086, Keep, <<1887, 7600229, 8816800>> >>,  \* 5443: a = 0.3927386145645443; v = 0.1887760022988168e-3
    <<5, 65674236, Keep, <<1973, 4746707, 6821400>> >>,  \* 5446: a = 0.4678825918374656; v = 0.1973474670768214e-3
    <<5, 87740107, Keep, <<2033, 7876612, 3465900>> >>,  \* 5449: a = 0.5408022024266935; v = 0.2033787661234659e-3
    <<5, 111811883, Keep, <<2072, 3436265, 1733100>> >>,  \* 5452: a = 0.6104967445752438; v = 0.2072343626517331e-3
    <<5, 137129741, Keep, <<2091, 1778342, 2691800>> >>,  \* 5455: a = 0.6760910702685738; v = 0.2091177834226918e-3
    <<6, 1328928, 112502, <<931, 6684484, 6755660>> >>,  \* 5459: a = 0.6655644120217392e-1; b = 0.1936508874588424e-1; v = 0.9316684484675566e-4
    <<6, 2676947, 542498, <<1116, 1936886, 8297600>> >>,  \* 5463: a = 0.9446246161270182e-1; b = 0.4252442002115869e-1; v = 0.1116193688682976e-3
    <<6, 4632551, 1389865, <<1298, 6235515, 5941400>> >>,  \* 5467: a = 0.1242651925452509; b = 0.6806529315354374e-1; v = 0.1298623551559414e-3
    <<6, 7239509, 2742357, <<1450, 2368324, 5642600>> >>,  \* 5471: a = 0.1553438064846751; b = 0.9560957491205369e-1; v = 0.1450236832456426e-3
    <<6, 10503462, 4657037, <<1572, 7199581, 4991400>> >>,  \* 5475: a = 0.1871137110542670; b = 0.1245931657452888; v = 0.1572719958149914e-3
    <<6, 14422650, 7164652, <<1673, 2347858, 6719500>> >>,  \* 5479: a = 0.2192612628836257; b = 0.1545385828778978; v = 0.1673234785867195e-3
    <<6, 18985980, 10278650, <<1756, 8601187, 2518800>> >>,  \* 5483: a = 0.2515682807206955; b = 0.1851004249723368; v = 0.1756860118725188e-3
    <<6, 24171858, 13999167, <<1826, 7762904, 3936700>> >>,  \* 5487: a = 0.2838535866287290; b = 0.2160182608272384; v = 0.1826776290439367e-3
    <<6, 29948815, 18314543, <<1885, 1163479, 9286500>> >>,  \* 5491: a = 0.3159578817528521; b = 0.2470799012277111; v = 0.1885116347992865e-3
    <<6, 36276325, 23202120, <<1933, 4578601, 7057400>> >>,  \* 5495: a = 0.3477370882791392; b = 0.2781014208986402; v = 0.1933457860170574e-3
    <<6, 43105421, 28628961, <<1973, 606719, 206400>> >>,  \* 5499: a = 0.3790576960890540; b = 0.3089172523515731; v = 0.1973060671902064e-3
    <<6, 50379295, 34552618, <<2004, 9870996, 1631100>> >>,  \* 5503: a = 0.4097938317810200; b = 0.3393750055472244; v = 0.2004987099616311e-3
    <<6, 58033983, 40921893, <<2030, 1709092, 8149900>> >>,  \* 5507: a = 0.4398256572859637; b = 0.3693322470987730; v = 0.2030170909281499e-3
    <<6, 65999109, 47677528, <<2049, 4614601, 1908000>> >>,  \* 5511: a = 0.4690384114718480; b = 0.3986541005609877; v = 0.2049461460119080e-3
    <<6, 74198634, 54752835, <<2063, 6535652, 18600>> >>,  \* 5515: a = 0.4973216048301053; b = 0.4272112491408562; v = 0.2063653565200186e-3
    <<6, 82551524, 62074246, <<2073, 5079273, 8102700>> >>,  \* 5519: a = 0.5245681526132446; b = 0.4548781735309936; v = 0.2073507927381027e-3
    <<6, 90972355, 69561786, <<2079, 7645932, 5612200>> >>,  \* 5523: a = 0.5506733911803888; b = 0.4815315355023251; v = 0.2079764593256122e-3
    <<6, 99371810, 77129498, <<2083, 1505349, 6877800>> >>,  \* 5527: a = 0.5755339829522475; b = 0.5070486445801855; v = 0.2083150534968778e-3
    <<6, 5112774, 156633, <<1262, 7151215, 9066400>> >>,  \* 5531: a = 0.1305472386056362; b = 0.2284970375722366e-1; v = 0.1262715121590664e-3
    <<6, 8042528, 694734, <<1414, 3861285, 4597200>> >>,  \* 5535: a = 0.1637327908216477; b = 0.4812254338288384e-1; v = 0.1414386128545972e-3
    <<6, 11675046, 1701811, <<1538, 7404013, 1389800>> >>,  \* 5539: a = 0.1972734634149637; b = 0.7531734457511935e-1; v = 0.1538740401313898e-3
    <<6, 15990213, 3238835, <<1642, 4349423, 3143200>> >>,  \* 5543: a = 0.2308694653110130; b = 0.1039043639882017; v = 0.1642434942331432e-3
    <<6, 20970609, 5342884, <<1729, 7906092, 3749600>> >>,  \* 5547: a = 0.2643899218338160; b = 0.1334526587117626; v = 0.1729790609237496e-3
    <<6, 26590652, 8033561, <<1803, 5051902, 6082800>> >>,  \* 5551: a = 0.2977171599622171; b = 0.1636414868936382; v = 0.1803505190260828e-3
    <<6, 32814579, 11316369, <<1865, 4753500, 7965700>> >>,  \* 5555: a = 0.3307293903032310; b = 0.1942195406166568; v = 0.1865475350079657e-3
    <<6, 39597575, 15184164, <<1917, 1826696, 7906900>> >>,  \* 5559: a = 0.3633069198219073; b = 0.2249752879943753; v = 0.1917182669679069e-3
    <<6, 46886856, 19618104, <<1959, 8517090, 3438200>> >>,  \* 5563: a = 0.3953346955922727; b = 0.2557218821820032; v = 0.1959851709034382e-3
    <<6, 54622338, 24588554, <<1994, 5295481, 1788200>> >>,  \* 5567: a = 0.4267018394184914; b = 0.2862897925213193; v = 0.1994529548117882e-3
    <<6, 62737251, 30055939, <<2022, 1389111, 4654800>> >>,  \* 5571: a = 0.4573009622571704; b = 0.3165224536636518; v = 0.2022138911146548e-3
    <<6, 71158869, 35971502, <<2043, 5180242, 859200>> >>,  \* 5575: a = 0.4870279559856109; b = 0.3462730221636496; v = 0.2043518024208592e-3
    <<6, 79809309, 42277928, <<2059, 4503130, 1811000>> >>,  \* 5579: a = 0.5157819581450322; b = 0.3754016870282835; v = 0.2059450313018110e-3
    <<6, 88606316, 48909882, <<2070, 6857153, 1847200>> >>,  \* 5583: a = 0.5434651666465393; b = 0.4037733784993613; v = 0.2070685715318472e-3
    <<6, 97463977, 55794464, <<2077, 9553106, 9437300>> >>,  \* 5587: a = 0.5699823887764627; b = 0.4312557784139123; v = 0.2077955310694373e-3
    <<6, 106293317, 62851603, <<2081, 9803878, 2471200>> >>,  \* 5591: a = 0.5952403350947741; b = 0.4577175367122110; v = 0.2081980387824712e-3
    <<6, 12303729, 190550, <<1521, 3186103, 7795600>> >>,  \* 5595: a = 0.2025152599210369; b = 0.2520253617719557e-1; v = 0.1521318610377956e-3
    <<6, 17008435, 818472, <<1622, 7727201, 8575500>> >>,  \* 5599: a = 0.2381066653274425; b = 0.5223254506119000e-1; v = 0.1622772720185755e-3
    <<6, 22404971, 1949232, <<1710, 4981394, 2070900>> >>,  \* 5603: a = 0.2732823383651612; b = 0.8060669688588620e-1; v = 0.1710498139420709e-3
    <<6, 28461745, 3625617, <<1785, 9111494, 4873600>> >>,  \* 5607: a = 0.3080137692611118; b = 0.1099335754081255; v = 0.1785911149448736e-3
    <<6, 35138581, 5872618, <<1850, 1253136, 8773600>> >>,  \* 5611: a = 0.3422405614587601; b = 0.1399120955959857; v = 0.1850125313687736e-3
    <<6, 42385930, 8700400, <<1904, 2297039, 3329800>> >>,  \* 5615: a = 0.3758808773890420; b = 0.1702977801651705; v = 0.1904229703933298e-3
    <<6, 50146476, 12105823, <<1949, 2599561, 2198700>> >>,  \* 5619: a = 0.4088458383438932; b = 0.2008799256601680; v = 0.1949259956121987e-3
    <<6, 58356222, 16073551, <<1986, 1615453, 6396000>> >>,  \* 5623: a = 0.4410450550841152; b = 0.2314703052180836; v = 0.1986161545363960e-3
    <<6, 66945110, 20577045, <<2015, 7905856, 4137000>> >>,  \* 5627: a = 0.4723879420561312; b = 0.2618972111375892; v = 0.2015790585641370e-3
    <<6, 75837633, 25579431, <<2038, 9341987, 741800>> >>,  \* 5631: a = 0.5027843561874343; b = 0.2920013195600270; v = 0.2038934198707418e-3
    <<6, 84953608, 31034192, <<2056, 3340605, 3825100>> >>,  \* 5635: a = 0.5321453674452458; b = 0.3216322555190551; v = 0.2056334060538251e-3
    <<6, 94209038, 36885714, <<2068, 7059594, 6228900>> >>,  \* 5639: a = 0.5603839113834030; b = 0.3506456615934198; v = 0.2068705959462289e-3
    <<6, 103516940, 43069726, <<2076, 7539061, 600200>> >>,  \* 5643: a = 0.5874150706875146; b = 0.3789007181306267; v = 0.2076753906106002e-3
    <<6, 112788061, 49513673, <<2081, 1793917, 3480300>> >>,  \* 5647: a = 0.6131559381660038; b = 0.4062580170572782; v = 0.2081179391734803e-3
    <<6, 23160137, 218096, <<1700, 3452162, 2894300>> >>,  \* 5651: a = 0.2778497016394506; b = 0.2696271276876226e-1; v = 0.1700345216228943e-3
    <<6, 29649182, 915261, <<1774, 9067799, 9041000>> >>,  \* 5655: a = 0.3143733562261912; b = 0.5523469316960465e-1; v = 0.1774906779990410e-3
    <<6, 36781209, 2139639, <<1839, 6593770, 264200>> >>,  \* 5659: a = 0.3501485810261827; b = 0.8445193201626464e-1; v = 0.1839659377002642e-3
    <<6, 44500547, 3921152, <<1894, 9874629, 7516900>> >>,  \* 5663: a = 0.3851430322303653; b = 0.1143263119336083; v = 0.1894987462975169e-3
    <<6, 52744099, 6274292, <<1941, 5488094, 5259500>> >>,  \* 5667: a = 0.4193013979470415; b = 0.1446177898344475; v = 0.1941548809452595e-3
    <<6, 61442785, 9199741, <<1980, 784272, 5238400>> >>,  \* 5671: a = 0.4525585960458567; b = 0.1751165438438091; v = 0.1980078427252384e-3
    <<6, 70522338, 12685582, <<2011, 2962847, 4448800>> >>,  \* 5675: a = 0.4848447779622947; b = 0.2056338306745660; v = 0.2011296284744488e-3
    <<6, 79903775, 16708311, <<2035, 8884569, 6677600>> >>,  \* 5679: a = 0.5160871208276894; b = 0.2359965487229226; v = 0.2035888456966776e-3
    <<6, 89504009, 21233667, <<2054, 5163253, 5214200>> >>,  \* 5683: a = 0.5462112185696926; b = 0.2660430223139146; v = 0.2054516325352142e-3
    <<6, 99236671, 26217243, <<2067, 8310330, 9263500>> >>,  \* 5687: a = 0.5751425068101757; b = 0.2956193664498032; v = 0.2067831033092635e-3
    <<6, 109013024, 31604950, <<2076, 4853202, 8487600>> >>,  \* 5691: a = 0.6028073872853596; b = 0.3245763905312779; v = 0.2076485320284876e-3
    <<6, 118742812, 37333367, <<2081, 1414395, 2525500>> >>,  \* 5695: a = 0.6291338275278409; b = 0.3527670026206972; v = 0.2081141439525255e-3
    <<6, 37632989, 239224, <<1834, 3830154, 6922200>> >>,  \* 5699: a = 0.3541797528439391; b = 0.2823853479435550e-1; v = 0.1834383015469222e-3
    <<6, 45822902, 988875, <<1889, 5405917, 7767700>> >>,  \* 5703: a = 0.3908234972074657; b = 0.5741296374713106e-1; v = 0.1889540591777677e-3
    <<6, 54555538, 2283584, <<1936, 6770235, 9737500>> >>,  \* 5707: a = 0.4264408450107590; b = 0.8724646633650199e-1; v = 0.1936677023597375e-3
    <<6, 63754908, 4142118, <<1976, 1764950, 6650400>> >>,  \* 5711: a = 0.4609949666553286; b = 0.1175034422915616; v = 0.1976176495066504e-3
    <<6, 73340962, 6569030, <<2008, 5360045, 6098300>> >>,  \* 5715: a = 0.4944389496536006; b = 0.1479755652628428; v = 0.2008536004560983e-3
    <<6, 83230026, 9555898, <<2034, 2803517, 1229100>> >>,  \* 5719: a = 0.5267194884346086; b = 0.1784740659484352; v = 0.2034280351712291e-3
    <<6, 93335151, 13082310, <<2053, 9444660, 2775800>> >>,  \* 5723: a = 0.5577787810220990; b = 0.2088245700431244; v = 0.2053944466027758e-3
    <<6, 103566749, 17116633, <<2068, 776428, 8236000>> >>,  \* 5727: a = 0.5875563763536670; b = 0.2388628136570763; v = 0.2068077642882360e-3
    <<6, 113833474, 21616543, <<2077, 2509496, 6159900>> >>,  \* 5731: a = 0.6159910016391269; b = 0.2684308928769185; v = 0.2077250949661599e-3
    <<6, 124043172, 26529402, <<2082, 624407, 532000>> >>,  \* 5735: a = 0.6430219602956268; b = 0.2973740761960252; v = 0.2082062440705320e-3
    <<6, 55486695, 255162, <<1934, 3744865, 4662600>> >>,  \* 5739: a = 0.4300647036213646; b = 0.2916399920493977e-1; v = 0.1934374486546626e-3
    <<6, 65188364, 1043876, <<1974, 1070104, 8430000>> >>,  \* 5743: a = 0.4661486308935531; b = 0.5898803024755659e-1; v = 0.1974107010484300e-3
    <<6, 75290037, 2389220, <<2007, 1292903, 8865800>> >>,  \* 5747: a = 0.5009658555287261; b = 0.8924162698525409e-1; v = 0.2007129290388658e-3
    <<6, 85701439, 4299757, <<2033, 7369474, 7129300>> >>,  \* 5751: a = 0.5344824270447704; b = 0.1197185199637321; v = 0.2033736947471293e-3
    <<6, 96330251, 6770723, <<2054, 2871259, 249300>> >>,  \* 5755: a = 0.5666575997416371; b = 0.1502300756161382; v = 0.2054287125902493e-3
    <<6, 107082426, 9784953, <<2069, 1849368, 1889400>> >>,  \* 5759: a = 0.5974457471404752; b = 0.1806004191913564; v = 0.2069184936818894e-3
    <<6, 117862887, 13313566, <<2078, 8836898, 878200>> >>,  \* 5763: a = 0.6267984444116886; b = 0.2106621764786252; v = 0.2078883689808782e-3
    <<6, 128576457, 17316407, <<2083, 8863661, 1635900>> >>,  \* 5767: a = 0.6546664713575417; b = 0.2402526932671914; v = 0.2083886366116359e-3
    <<6, 76286803, 266864, <<2006, 5932754, 7081700>> >>,  \* 5771: a = 0.5042711004437253; b = 0.2982529203607657e-1; v = 0.2006593275470817e-3
    <<6, 87225116, 1083144, <<2033, 7284261, 3539700>> >>,  \* 5775: a = 0.5392127456774380; b = 0.6008728062339922e-1; v = 0.2033728426135397e-3
    <<6, 98389383, 2461545, <<2055, 87813, 7760800>> >>,  \* 5779: a = 0.5726819437668618; b = 0.9058227674571398e-1; v = 0.2055008781377608e-3
    <<6, 109679371, 4401156, <<2070, 6517835, 1850200>> >>,  \* 5783: a = 0.6046469254207278; b = 0.1211219235803400; v = 0.2070651783518502e-3
    <<6, 120994787, 6888279, <<2080, 9533350, 9432000>> >>,  \* 5787: a = 0.6350716157434952; b = 0.1515286404791580; v = 0.2080953335094320e-3
    <<6, 132236041, 9896997, <<2086, 2849989, 8852100>> >>,  \* 5791: a = 0.6639177679185454; b = 0.1816314681255552; v = 0.2086284998988521e-3
    <<6, 99438682, 274880, <<2055, 5493876, 4466800>> >>,  \* 5795: a = 0.5757276040972253; b = 0.3026991752575440e-1; v = 0.2055549387644668e-3
    <<6, 111274013, 1108409, <<2071, 8718502, 6765400>> >>,  \* 5799: a = 0.6090265823139755; b = 0.6078402297870770e-1; v = 0.2071871850267654e-3
    <<6, 123138773, 2503699, <<2082, 8566004, 3196500>> >>,  \* 5803: a = 0.6406735344387661; b = 0.9135459984176636e-1; v = 0.2082856600431965e-3
    <<6, 134927319, 4450749, <<2088, 7058588, 1935800>> >>,  \* 5807: a = 0.6706397927793709; b = 0.1218024155966590; v = 0.2088705858819358e-3
    <<6, 124228435, 279553, <<2083, 9958675, 3632200>> >>,  \* 5811: a = 0.6435019674426665; b = 0.3052608357660639e-1; v = 0.2083995867536322e-3
    <<6, 136574880, 1120764, <<2090, 5097128, 8963700>> >>   \* 5815: a = 0.6747218676375681; b = 0.6112185773983089e-1; v = 0.2090509712889637e-3
  >>

\* ld5810 (lines 5821-6387): a = b = 0.0, n = 0, then one row per "n = n + gen_oh(...)"
ld5810 ==
  <<
    <<1, Keep, Keep, <<97, 3534794, 6175486>> >>,  \* 5857: v = 0.9735347946175486e-5
    <<2, Keep, Keep, <<1907, 5812418, 316700>> >>,  \* 5859: v = 0.1907581241803167e-3
    <<3, Keep, Keep, <<1901, 595467, 3757800>> >>,  \* 5861: v = 0.1901059546737578e-3
    <<4, 41939, Keep, <<392, 6424538, 9192120>> >>,  \* 5864: a = 0.1182361662400277e-1; v = 0.3926424538919212e-4
    <<4, 281302, Keep, <<666, 7905467, 2943820>> >>,  \* 5867: a = 0.3062145009138958e-1; v = 0.6667905467294382e-4
    <<4, 852201, Keep, <<886, 8891315, 191350>> >>,  \* 5870: a = 0.5329794036834243e-1; v = 0.8868891315019135e-4
    <<4, 1847811, Keep, <<1066, 3060009, 5887200>> >>,  \* 5873: a = 0.7848165532862220e-1; v = 0.1066306000958872e-3
    <<4, 3332989, Keep, <<1214, 5067433, 3612800>> >>,  \* 5876: a = 0.1054038157636201; v = 0.1214506743336128e-3
    <<4, 5351304, Keep, <<1338, 546816, 4087100>> >>,  \* 5879: a = 0.1335577797766211; v = 0.1338054681640871e-3
    <<4, 7929384, Keep, <<1441, 6770236, 2850400>> >>,  \* 5882: a = 0.1625769955502252; v = 0.1441677023628504e-3
    <<4, 11079798, Keep, <<1528, 8802008, 2655700>> >>,  \* 5885: a = 0.1921787193412792; v = 0.1528880200826557e-3
    <<4, 14803061, Keep, <<1602, 3306237, 7360900>> >>,  \* 5888: a = 0.2221340534690548; v = 0.1602330623773609e-3
    <<4, 19089093, Keep, <<1664, 1026534, 4524400>> >>,  \* 5891: a = 0.2522504912791132; v = 0.1664102653445244e-3
    <<4, 23918335, Keep, <<1715, 8458540, 1132300>> >>,  \* 5894: a = 0.2823610860679697; v = 0.1715845854011323e-3
    <<4, 29262647, Keep, <<1758, 9010001, 3306900>> >>,  \* 5897: a = 0.3123173966267560; v = 0.1758901000133069e-3
    <<4, 35086061, Keep, <<1794, 3824852, 5673600>> >>,  \* 5900: a = 0.3419847036953789; v = 0.1794382485256736e-3
    <<4, 41345440, Keep, <<1823, 2381067, 5740700>> >>,  \* 5903: a = 0.3712386456999758; v = 0.1823238106757407e-3
    <<4, 47991064, Keep, <<1846, 2932529, 5997600>> >>,  \* 5906: a = 0.3999627649876828; v = 0.1846293252959976e-3
    <<4, 54967179, Keep, <<1864, 2840793, 2309800>> >>,  \* 5909: a = 0.4280466458648093; v = 0.1864284079323098e-3
    <<4, 62212495, Keep, <<1877, 8826946, 2691400>> >>,  \* 5912: a = 0.4553844360185711; v = 0.1877882694626914e-3
    <<4, 69660653, Keep, <<1887, 7163218, 5202500>> >>,  \* 5915: a = 0.4818736094437834; v = 0.1887716321852025e-3
    <<4, 77240651, Keep, <<1894, 3816381, 7567300>> >>,  \* 5918: a = 0.5074138709260629; v = 0.1894381638175673e-3
    <<4, 84877239, Keep, <<1898, 4548995, 3362900>> >>,  \* 5921: a = 0.5319061304570707; v = 0.1898454899533629e-3
    <<4, 92491268, Keep, <<1900, 4979295, 7781500>> >>,  \* 5924: a = 0.5552514978677286; v = 0.1900497929577815e-3
    <<4, 107317407, Keep, <<1900, 6715019, 2409200>> >>,  \* 5927: a = 0.5981009025246183; v = 0.1900671501924092e-3
    <<4, 114354465, Keep, <<1899, 8375555, 3351000>> >>,  \* 5930: a = 0.6173990192228116; v = 0.1899837555533510e-3
    <<4, 121019521, Keep, <<1899, 141131, 5622900>> >>,  \* 5933: a = 0.6351365239411131; v = 0.1899014113156229e-3
    <<4, 127218832, Keep, <<1898, 5812577, 510600>> >>,  \* 5936: a = 0.6512010228227200; v = 0.1898581257705106e-3
    <<4, 132857427, Keep, <<1898, 8047560, 9575300>> >>,  \* 5939: a = 0.6654758363948120; v = 0.1898804756095753e-3
    <<4, 137840543, Keep, <<1899, 7936104, 2640200>> >>,  \* 5942: a = 0.6778410414853370; v = 0.1899793610426402e-3
    <<4, 142075899, Keep, <<1901, 4645548, 4411700>> >>,  \* 5945: a = 0.6881760887484110; v = 0.1901464554844117e-3
    <<4, 145477066, Keep, <<1903, 5332462, 5954200>> >>,  \* 5948: a = 0.6963645267094598; v = 0.1903533246259542e-3
    <<4, 147968034, Keep, <<1905, 5561584, 6322800>> >>,  \* 5951: a = 0.7023010617153579; v = 0.1905556158463228e-3
    <<4, 149488639, Keep, <<1907, 371556, 6352800>> >>,  \* 5954: a = 0.7059004636628753; v = 0.1907037155663528e-3
    <<5, 378601, Keep, <<599, 2997844, 2499670>> >>,  \* 5957: a = 0.3552470312472575e-1; v = 0.5992997844249967e-4
    <<5, 2512321, Keep, <<974, 9059382, 4569780>> >>,  \* 5960: a = 0.9151176620841283e-1; v = 0.9749059382456978e-4
    <<5, 7358928, Keep, <<1241, 6808045, 9915800>> >>,  \* 5963: a = 0.1566197930068980; v = 0.1241680804599158e-3
    <<5, 15397030, Keep, <<1437, 6261542, 9936000>> >>,  \* 5966: a = 0.2265467599271907; v = 0.1437626154299360e-3
    <<5, 26788776, Keep, <<1584, 2000547, 9390200>> >>,  \* 5969: a = 0.2988242318581361; v = 0.1584200054793902e-3
    <<5, 41459027, Keep, <<1694, 4365509, 8274400>> >>,  \* 5972: a = 0.3717482419703886; v = 0.1694436550982744e-3
    <<5, 59143317, Keep, <<1776, 6170140, 1810800>> >>,  \* 5975: a = 0.4440094491758889; v = 0.1776617014018108e-3
    <<5, 79423482, Keep, <<1836, 1324344, 4007700>> >>,  \* 5978: a = 0.5145337096756642; v = 0.1836132434440077e-3
    <<5, 101758804, Keep, <<1876, 4947270, 7598300>> >>,  \* 5981: a = 0.5824053672860230; v = 0.1876494727075983e-3
    <<5, 125516092, Keep, <<1899, 9065353, 3648200>> >>,  \* 5984: a = 0.6468283961043370; v = 0.1899906535336482e-3
    <<6, 1114823, 95890, <<814, 3252820, 7673500>> >>,  \* 5988: a = 0.6095964259104373e-1; b = 0.1787828275342931e-1; v = 0.8143252820767350e-4
    <<6, 2329520, 468997, <<999, 8859890, 8877280>> >>,  \* 5992: a = 0.8811962270959388e-1; b = 0.3953888740792096e-1; v = 0.9998859890887728e-4
    <<6, 4078225, 1220413, <<1156, 1994030, 6835900>> >>,  \* 5996: a = 0.1165936722428831; b = 0.6378121797722990e-1; v = 0.1156199403068359e-3
    <<6, 6396840, 2422387, <<1287, 6320926, 3551300>> >>,  \* 6000: a = 0.1460232857031785; b = 0.8985890813745037e-1; v = 0.1287632092635513e-3
    <<6, 9305446, 4125018, <<1398, 3786433, 6513900>> >>,  \* 6004: a = 0.1761197110181755; b = 0.1172606510576162; v = 0.1398378643365139e-3
    <<6, 12810910, 6360707, <<1491, 8764684, 1739100>> >>,  \* 6008: a = 0.2066471190463718; b = 0.1456102876970995; v = 0.1491876468417391e-3
    <<6, 16908711, 9147160, <<1570, 8556791, 7545600>> >>,  \* 6012: a = 0.2374076026328152; b = 0.1746153823011775; v = 0.1570855679175456e-3
    <<6, 21584288, 12489489, <<1637, 4839481, 377500>> >>,  \* 6016: a = 0.2682305474337051; b = 0.2040383070295584; v = 0.1637483948103775e-3
    <<6, 26814081, 16381743, <<1693, 5005666, 3284300>> >>,  \* 6020: a = 0.2989653312142369; b = 0.2336788634003698; v = 0.1693500566632843e-3
    <<6, 32566385, 20808064, <<1740, 3227693, 9363300>> >>,  \* 6024: a = 0.3294762752772209; b = 0.2633632752654219; v = 0.1740322769393633e-3
    <<6, 38802082, 25743610, <<1779, 1266372, 7829600>> >>,  \* 6028: a = 0.3596390887276086; b = 0.2929369098051601; v = 0.1779126637278296e-3
    <<6, 45475295, 31155313, <<1810, 9081088, 3541200>> >>,  \* 6032: a = 0.3893383046398812; b = 0.3222592785275512; v = 0.1810908108835412e-3
    <<6, 52533982, 37002533, <<1836, 5291326, 19000>> >>,  \* 6036: a = 0.4184653789358347; b = 0.3512004791195743; v = 0.1836529132600190e-3
    <<6, 59920504, 43237633, <<1856, 7528417, 7737900>> >>,  \* 6040: a = 0.4469172319076166; b = 0.3796385677684537; v = 0.1856752841777379e-3
    <<6, 67572147, 49806494, <<1872, 2705666, 683200>> >>,  \* 6044: a = 0.4745950813276976; b = 0.4074575378263879; v = 0.1872270566606832e-3
    <<6, 75421629, 56648987, <<1883, 7226455, 9130700>> >>,  \* 6048: a = 0.5014034601410262; b = 0.4345456906027828; v = 0.1883722645591307e-3
    <<6, 83397560, 63699403, <<1891, 7143245, 2529700>> >>,  \* 6052: a = 0.5272493404551239; b = 0.4607942515205134; v = 0.1891714324525297e-3
    <<6, 91424881, 70886834, <<1896, 8274804, 5014600>> >>,  \* 6056: a = 0.5520413051846366; b = 0.4860961284181720; v = 0.1896827480450146e-3
    <<6, 99425252, 78135526, <<1899, 6284170, 5952800>> >>,  \* 6060: a = 0.5756887237503077; b = 0.5103447395342790; v = 0.1899628417059528e-3
    <<6, 4502165, 136933, <<1123, 3018290, 166900>> >>,  \* 6064: a = 0.1225039430588352; b = 0.2136455922655793e-1; v = 0.1123301829001669e-3
    <<6, 7106608, 613163, <<1253, 6988267, 1127700>> >>,  \* 6068: a = 0.1539113217321372; b = 0.4520926166137188e-1; v = 0.1253698826711277e-3
    <<6, 10336581, 1506541, <<1366, 2661176, 7853100>> >>,  \* 6072: a = 0.1856213098637712; b = 0.7086468177864818e-1; v = 0.1366266117678531e-3
    <<6, 14191858, 2872527, <<1462, 7368561, 691800>> >>,  \* 6076: a = 0.2174998728035131; b = 0.9785239488772918e-1; v = 0.1462736856106918e-3
    <<6, 18662028, 4748495, <<1545, 764666, 8541200>> >>,  \* 6080: a = 0.2494128336938330; b = 0.1258106396267210; v = 0.1545076466685412e-3
    <<6, 23727458, 7156711, <<1615, 962808, 1400700>> >>,  \* 6084: a = 0.2812321562143480; b = 0.1544529125047001; v = 0.1615096280814007e-3
    <<6, 29360139, 10106449, <<1674, 3666397, 4175900>> >>,  \* 6088: a = 0.3128372276456111; b = 0.1835433512202753; v = 0.1674366639741759e-3
    <<6, 35524440, 13595538, <<1724, 2250024, 3790000>> >>,  \* 6092: a = 0.3441145160177973; b = 0.2128813258619585; v = 0.1724225002437900e-3
    <<6, 42177774, 17611533, <<1765, 8108229, 8728800>> >>,  \* 6096: a = 0.3749567714853510; b = 0.2422913734880829; v = 0.1765810822987288e-3
    <<6, 49271229, 22132637, <<1800, 1041260, 1075100>> >>,  \* 6100: a = 0.4052621732015610; b = 0.2716163748391453; v = 0.1800104126010751e-3
    <<6, 56750157, 27128450, <<1827, 9604373, 3128400>> >>,  \* 6104: a = 0.4349335453522385; b = 0.3007127671240280; v = 0.1827960437331284e-3
    <<6, 64554746, 32560611, <<1850, 1403007, 1630800>> >>,  \* 6108: a = 0.4638776641524965; b = 0.3294470677216479; v = 0.1850140300716308e-3
    <<6, 72620570, 38383339, <<1867, 3335073, 9493800>> >>,  \* 6112: a = 0.4920046410462687; b = 0.3576932543699155; v = 0.1867333507394938e-3
    <<6, 80879114, 44543926, <<1880, 1786886, 3828900>> >>,  \* 6116: a = 0.5192273554861704; b = 0.3853307059757764; v = 0.1880178688638289e-3
    <<6, 89258281, 50983165, <<1889, 2789256, 5475800>> >>,  \* 6120: a = 0.5454609081136522; b = 0.4122425044452694; v = 0.1889278925654758e-3
    <<6, 97682863, 57635738, <<1895, 2138325, 734600>> >>,  \* 6124: a = 0.5706220661424140; b = 0.4383139587781027; v = 0.1895213832507346e-3
    <<6, 106074979, 64430558, <<1898, 5482773, 9742000>> >>,  \* 6128: a = 0.5946286755181518; b = 0.4634312536300553; v = 0.1898548277397420e-3
    <<6, 10891314, 168694, <<1349, 1059359, 3734100>> >>,  \* 6132: a = 0.1905370790924295; b = 0.2371311537781979e-1; v = 0.1349105935937341e-3
    <<6, 15086671, 725566, <<1444, 600683, 6932600>> >>,  \* 6136: a = 0.2242518717748009; b = 0.4917878059254806e-1; v = 0.1444060068369326e-3
    <<6, 19925737, 1730748, <<1526, 7973909, 3000800>> >>,  \* 6140: a = 0.2577190808025936; b = 0.7595498960495142e-1; v = 0.1526797390930008e-3
    <<6, 25382035, 3226052, <<1598, 2087714, 647400>> >>,  \* 6144: a = 0.2908724534927187; b = 0.1036991083191100; v = 0.1598208771406474e-3
    <<6, 31421962, 5237886, <<1659, 3543686, 1533100>> >>,  \* 6148: a = 0.3236354020056219; b = 0.1321348584450234; v = 0.1659354368615331e-3
    <<6, 38005152, 7779358, <<1711, 2799109, 4644000>> >>,  \* 6152: a = 0.3559267359304543; b = 0.1610316571314789; v = 0.1711279910946440e-3
    <<6, 45084946, 10851809, <<1754, 9527256, 144000>> >>,  \* 6156: a = 0.3876637123676956; b = 0.1901912080395707; v = 0.1754952725601440e-3
    <<6, 52608904, 14445976, <<1791, 2478508, 252900>> >>,  \* 6160: a = 0.4187636705218842; b = 0.2194384950137950; v = 0.1791247850802529e-3
    <<6, 60519343, 18542905, <<1820, 9543008, 7771600>> >>,  \* 6164: a = 0.4491449019883107; b = 0.2486155334763858; v = 0.1820954300877716e-3
    <<6, 68753889, 23114679, <<1844, 7885245, 4844900>> >>,  \* 6168: a = 0.4787270932425445; b = 0.2775768931812335; v = 0.1844788524548449e-3
    <<6, 77246023, 28125030, <<1863, 4094817, 622000>> >>,  \* 6172: a = 0.5074315153055574; b = 0.3061863786591120; v = 0.1863409481706220e-3
    <<6, 85925627, 33529850, <<1877, 4330087, 9506800>> >>,  \* 6176: a = 0.5351810507738336; b = 0.3343144718152556; v = 0.1877433008795068e-3
    <<6, 94719518, 39277647, <<1887, 4445437, 523200>> >>,  \* 6180: a = 0.5619001025975381; b = 0.3618362729028427; v = 0.1887444543705232e-3
    <<6, 103551952, 45309927, <<1894, 98293, 7500600>> >>,  \* 6184: a = 0.5875144035268046; b = 0.3886297583620408; v = 0.1894009829375006e-3
    <<6, 112345109, 51561537, <<1897, 6833450, 3519800>> >>,  \* 6188: a = 0.6119507308734495; b = 0.4145742277792031; v = 0.1897683345035198e-3
    <<6, 20589017, 193555, <<1517, 3270374, 6765300>> >>,  \* 6192: a = 0.2619733870119463; b = 0.2540047186389353e-1; v = 0.1517327037467653e-3
    <<6, 26429739, 813731, <<1587, 7405574, 8354300>> >>,  \* 6196: a = 0.2968149743237949; b = 0.5208107018543989e-1; v = 0.1587740557483543e-3
    <<6, 32877267, 1906501, <<1649, 933822, 7409700>> >>,  \* 6200: a = 0.3310451504860488; b = 0.7971828470885599e-1; v = 0.1649093382274097e-3
    <<6, 39884664, 3502220, <<1701, 9152161, 9326500>> >>,  \* 6204: a = 0.3646215567376676; b = 0.1080465999177927; v = 0.1701915216193265e-3
    <<6, 47399890, 5617669, <<1746, 8477531, 4406500>> >>,  \* 6208: a = 0.3974916785279360; b = 0.1368413849366629; v = 0.1746847753144065e-3
    <<6, 55366008, 8257571, <<1784, 5555120, 757000>> >>,  \* 6212: a = 0.4295967403772029; b = 0.1659073184763559; v = 0.1784555512007570e-3
    <<6, 63721532, 11415735, <<1815, 6875621, 1217400>> >>,  \* 6216: a = 0.4608742854473447; b = 0.1950703730454614; v = 0.1815687562112174e-3
    <<6, 72400883, 15075941, <<1840, 8643706, 6330200>> >>,  \* 6220: a = 0.4912598858949903; b = 0.2241721144376724; v = 0.1840864370663302e-3
    <<6, 81334884, 19212648, <<1860, 6767853, 9000600>> >>,  \* 6224: a = 0.5206882758945558; b = 0.2530655255406489; v = 0.1860676785390006e-3
    <<6, 90451296, 23791569, <<1875, 6905837, 4370300>> >>,  \* 6228: a = 0.5490940914019819; b = 0.2816118409731066; v = 0.1875690583743703e-3
    <<6, 99675352, 28770148, <<1886, 4532363, 4722500>> >>,  \* 6232: a = 0.5764123302025542; b = 0.3096780504593238; v = 0.1886453236347225e-3
    <<6, 108930291, 34097969, <<1893, 5011233, 2964500>> >>,  \* 6236: a = 0.6025786004213506; b = 0.3371348366394987; v = 0.1893501123329645e-3
    <<6, 118137868, 39717091, <<1897, 3661845, 1986800>> >>,  \* 6240: a = 0.6275291964794956; b = 0.3638547827694396; v = 0.1897366184519868e-3
    <<6, 33631118, 213041, <<1643, 9088151, 5273600>> >>,  \* 6244: a = 0.3348189479861771; b = 0.2664841935537443e-1; v = 0.1643908815152736e-3
    <<6, 41059246, 882593, <<1696, 3003509, 776800>> >>,  \* 6248: a = 0.3699515545855295; b = 0.5424000066843495e-1; v = 0.1696300350907768e-3
    <<6, 49013366, 2042862, <<1741, 5531038, 4448300>> >>,  \* 6252: a = 0.4042003071474669; b = 0.8251992715430854e-1; v = 0.1741553103844483e-3
    <<6, 57430278, 3714272, <<1780, 152823, 8609200>> >>,  \* 6256: a = 0.4375320100182624; b = 0.1112695182483710; v = 0.1780015282386092e-3
    <<6, 66243339, 5904925, <<1812, 1167870, 7712500>> >>,  \* 6260: a = 0.4699054490335947; b = 0.1402964116467816; v = 0.1812116787077125e-3
    <<6, 75382683, 8611705, <<1838, 3231580, 8542100>> >>,  \* 6264: a = 0.5012739879431952; b = 0.1694275117584291; v = 0.1838323158085421e-3
    <<6, 84775577, 11821130, <<1859, 1131198, 3773700>> >>,  \* 6268: a = 0.5315874883754966; b = 0.1985038235312689; v = 0.1859113119837737e-3
    <<6, 94346876, 15510031, <<1874, 9692202, 2169800>> >>,  \* 6272: a = 0.5607937109622117; b = 0.2273765660020893; v = 0.1874969220221698e-3
    <<6, 104019524, 19646080, <<1886, 3756126, 8107600>> >>,  \* 6276: a = 0.5888393223495521; b = 0.2559041492849764; v = 0.1886375612681076e-3
    <<6, 113715086, 24188234, <<1893, 8195758, 927600>> >>,  \* 6280: a = 0.6156705979160163; b = 0.2839497251976899; v = 0.1893819575809276e-3
    <<6, 123354267, 29087084, <<1897, 7947482, 5676700>> >>,  \* 6284: a = 0.6412338809078123; b = 0.3113791060500690; v = 0.1897794748256767e-3
    <<6, 49842582, 228163, <<1738, 9639265, 8484600>> >>,  \* 6288: a = 0.4076051259257167; b = 0.2757792290858463e-1; v = 0.1738963926584846e-3
    <<6, 58709704, 935478, <<1777, 4423598, 7346600>> >>,  \* 6292: a = 0.4423788125791520; b = 0.5584136834984293e-1; v = 0.1777442359873466e-3
    <<6, 67986536, 2146017, <<1810, 108150, 6871900>> >>,  \* 6296: a = 0.4760480917328258; b = 0.8457772087727143e-1; v = 0.1810010815068719e-3
    <<6, 77597267, 3871323, <<1836, 9203182, 4812900>> >>,  \* 6300: a = 0.5085838725946297; b = 0.1135975846359248; v = 0.1836920318248129e-3
    <<6, 87464243, 6111444, <<1858, 4894732, 1432800>> >>,  \* 6304: a = 0.5399513637391218; b = 0.1427286904765053; v = 0.1858489473214328e-3
    <<6, 97508254, 8855734, <<1875, 793424, 9659200>> >>,  \* 6308: a = 0.5701118433636380; b = 0.1718112740057635; v = 0.1875079342496592e-3
    <<6, 107648945, 12083483, <<1887, 802391, 231000>> >>,  \* 6312: a = 0.5990240530606021; b = 0.2006944855985351; v = 0.1887080239102310e-3
    <<6, 117805288, 15764401, <<1894, 9057521, 7682200>> >>,  \* 6316: a = 0.6266452685139695; b = 0.2292335090598907; v = 0.1894905752176822e-3
    <<6, 127896097, 19859003, <<1898, 9910612, 69500>> >>,  \* 6320: a = 0.6529320971415942; b = 0.2572871512353714; v = 0.1898991061200695e-3
    <<6, 68877827, 239604, <<1809, 650164, 5879100>> >>,  \* 6324: a = 0.4791583834610126; b = 0.2826094197735932e-1; v = 0.1809065016458791e-3
    <<6, 78962211, 974656, <<1836, 2971215, 9679900>> >>,  \* 6328: a = 0.5130373952796940; b = 0.5699871359683649e-1; v = 0.1836297121596799e-3
    <<6, 89312072, 2220200, <<1858, 4269162, 4186900>> >>,  \* 6332: a = 0.5456252429628476; b = 0.8602712528554394e-1; v = 0.1858426916241869e-3
    <<6, 99842571, 3979571, <<1875, 6541011, 3464100>> >>,  \* 6336: a = 0.5768956329682385; b = 0.1151748137221281; v = 0.1875654101134641e-3
    <<6, 110468678, 6245116, <<1888, 2407518, 3350300>> >>,  \* 6340: a = 0.6068186944699046; b = 0.1442811654136362; v = 0.1888240751833503e-3
    <<6, 121105547, 8998748, <<1896, 4973838, 6697900>> >>,  \* 6344: a = 0.6353622248024907; b = 0.1731930321657680; v = 0.1896497383866979e-3
    <<6, 131668975, 12212371, <<1900, 7755302, 1912100>> >>,  \* 6348: a = 0.6624927035731797; b = 0.2017619958756061; v = 0.1900775530219121e-3
    <<6, 90253487, 247834, <<1858, 5250414, 7881400>> >>,  \* 6352: a = 0.5484933508028488; b = 0.2874219755907391e-1; v = 0.1858525041478814e-3
    <<6, 101275540, 1001667, <<1876, 2486900, 7794700>> >>,  \* 6356: a = 0.5810207682142106; b = 0.5778312123713695e-1; v = 0.1876248690077947e-3
    <<6, 112398278, 2268228, <<1889, 4044390, 6460700>> >>,  \* 6360: a = 0.6120955197181352; b = 0.8695262371439526e-1; v = 0.1889404439064607e-3
    <<6, 123531522, 4043023, <<1898, 1685392, 6529000>> >>,  \* 6364: a = 0.6416944284294319; b = 0.1160893767057166; v = 0.1898168539265290e-3
    <<6, 134586654, 6310796, <<1902, 7799406, 6177200>> >>,  \* 6368: a = 0.6697926391731260; b = 0.1450378826743251; v = 0.1902779940661772e-3
    <<6, 113378750, 253163, <<1890, 1256417, 3181500>> >>,  \* 6372: a = 0.6147594390585488; b = 0.2904957622341456e-1; v = 0.1890125641731815e-3
    <<6, 125016181, 1017503, <<1899, 4346377, 9575100>> >>,  \* 6376: a = 0.6455390026356783; b = 0.5823809152617197e-1; v = 0.1899434637795751e-3
    <<6, 136576495, 2291830, <<1904, 5208568, 3175100>> >>,  \* 6380: a = 0.6747258588365477; b = 0.8740384899884715e-1; v = 0.1904520856831751e-3
    <<6, 137585468, 255783, <<1905, 5344987, 3456300>> >>   \* 6384: a = 0.6772135750395347; b = 0.2919946135808105e-1; v = 0.1905534498734563e-3
  >>

\* the supported orders, as the specification lists them
Supported == {6, 14, 26, 38, 50, 74, 86, 110, 146, 170, 194, 230, 266, 302, 350, 434, 590, 770, 974, 1202, 1454, 1730, 2030, 2354, 2702, 3074, 3470, 3890, 4334, 4802, 5294, 5810}

\* mutant: the branch of order 14 calls the table function of order 26
Dispatch_swapped(order) ==
  IF order = 14 THEN 26 ELSE IF order \in Supported THEN order ELSE NoTable

\* mutant: the final else falls back to the smallest rule
Dispatch_fallback(order) ==
  IF order \in Supported THEN order ELSE 6

\* the if / else-if chain of leb_order_routing (lines 6428-6491): the table function
\* called for an order, named by the number in its name; NoTable for the final else
Dispatch(order) ==
  CASE order = 6 -> 6
    [] order = 14 -> 14
    [] order = 26 -> 26
    [] order = 38 -> 38
    [] order = 50 -> 50
    [] order = 74 -> 74
    [] order = 86 -> 86
    [] order = 110 -> 110
    [] order = 146 -> 146
    [] order = 170 -> 170
    [] order = 194 -> 194
    [] order = 230 -> 230
    [] order = 266 -> 266
    [] order = 302 -> 302
    [] order = 350 -> 350
    [] order = 434 -> 434
    [] order = 590 -> 590
    [] order = 770 -> 770
    [] order = 974 -> 974
    [] order = 1202 -> 1202
    [] order = 1454 -> 1454
    [] order = 1730 -> 1730
    [] order = 2030 -> 2030
    [] order = 2354 -> 2354
    [] order = 2702 -> 2702
    [] order = 3074 -> 3074
    [] order = 3470 -> 3470
    [] order = 3890 -> 3890
    [] order = 4334 -> 4334
    [] order = 4802 -> 4802
    [] order = 5294 -> 5294
    [] order = 5810 -> 5810
    [] OTHER -> NoTable

\* the body of the table function ldNNNN
Table(id) ==
  CASE id = 6 -> ld0006
    [] id = 14 -> ld0014
    [] id = 26 -> ld0026
    [] id = 38 -> ld0038
    [] id = 50 -> ld0050
    [] id = 74 -> ld0074
    [] id = 86 -> ld0086
    [] id = 110 -> ld0110
    [] id = 146 -> ld0146
    [] id = 170 -> ld0170
    [] id = 194 -> ld0194
    [] id = 230 -> ld0230
    [] id = 266 -> ld0266
    [] id = 302 -> ld0302
    [] id = 350 -> ld0350
    [] id = 434 -> ld0434
    [] id = 590 -> ld0590
    [] id = 770 -> ld0770
    [] id = 974 -> ld0974
    [] id = 1202 -> ld1202
    [] id = 1454 -> ld1454
    [] id = 1730 -> ld1730
    [] id = 2030 -> ld2030
    [] id = 2354 -> ld2354
    [] id = 2702 -> ld2702
    [] id = 3074 -> ld3074
    [] id = 3470 -> ld3470
    [] id = 3890 -> ld3890
    [] id = 4334 -> ld4334
    [] id = 4802 -> ld4802
    [] id = 5294 -> ld5294
    [] id = 5810 -> ld5810

\* --------------------------------------------------------------- the state
VARIABLES
  pc,      \* "idle", "ld" (inside a table function), "ret" (back in
           \* leb_order_routing), "done", "exited"
  entry,   \* the function the caller entered: "none", "gen_oh", "routing"
  order,   \* leb_order_routing: its argument
  rn,      \* leb_order_routing: its local n
  called,  \* the table functions leb_order_routing has invoked, in order
  base,    \* offset of the pointers the table function received, relative
           \* to the caller's buffers
  fn,      \* the running table function (the number in its name)
  tab,     \* table function: its literals, one row per gen_oh call
  k,       \* table function: its next row
  a, b, v, \* table function: its locals a, b, v
  n,       \* table function: its local n
  tret,    \* the value the table function returned
  x, y, z, w,  \* the caller's buffers, indexed from 0
  wr,      \* how many times each index of the buffers has been written
  oob,     \* a write fell outside the caller's buffers
  call,    \* the arguments of the latest gen_oh call and the offset of its
           \* pointers in the caller's buffers
  gret,    \* the value the latest gen_oh call returned
  trace,   \* <<code, offset, returned value>> of every gen_oh call so far
  stderr,  \* the messages printed
  ret,     \* the value returned to the caller
  garbage, \* what the caller's buffers held on entry
  first,   \* what the caller kept of its first call when it calls again
  other    \* the call of a second thread while it is not running

vars == <<pc, entry, order, rn, called, base, fn, k, a, b, v, n, tret,
          x, y, z, w, wr, oob, call, gret, trace, stderr, ret, garbage,
          first, tab, other>>

NoCall == [code |-> 0, a |-> 0, b |-> 0, v |-> <<0, 0, 0>>, off |-> 0]

NoRun == [entry |-> "none", order |-> 0, call |-> NoCall, garbage |-> 0,
          ret |-> 0, pts |-> <<>>]

\* no second thread
NoThread ==
  [pc |-> "none", entry |-> "none", order |-> 0, rn |-> 0, called |-> <<>>,
   base |-> 0, fn |-> NoTable, tab |-> <<>>, k |-> 0, a |-> 0, b |-> 0,
   v |-> <<0, 0, 0>>, n |-> 0, tret |-> 0, x |-> <<>>, y |-> <<>>, z |-> <<>>,
   w |-> <<>>, wr |-> <<>>, oob |-> FALSE, call |-> NoCall, gret |-> 0,
   trace |-> <<>>, ret |-> 0, garbage |-> 0]

Init ==
  /\ pc = "idle" /\ entry = "none"
  /\ order = 0 /\ rn = 0 /\ called = <<>> /\ base = 0
  /\ fn = NoTable /\ k = 0 /\ a = 0 /\ b = 0 /\ v = <<0, 0, 0>> /\ n = 0
  /\ tret = 0
  /\ x = <<>> /\ y = <<>> /\ z = <<>> /\ w = <<>> /\ wr = <<>>
  /\ oob = FALSE
  /\ call = NoCall /\ gret = 0 /\ trace = <<>>
  /\ stderr = <<>> /\ ret = 0 /\ garbage = 0
  /\ first = NoRun
  /\ tab = <<>>
  /\ other = NoThread

\* in place of the initial contents: the caller passes the buffers it passed
\* to its call before, as that call left them
Same == 0 - 1

\* the caller's buffers: cap entries of unspecified contents g
Alloc(cap, g) == [i \in 0 .. cap - 1 |-> g]

\* the assignments of gen_oh through pointers that are the caller's buffers
\* plus off: for every index of the caller's buffers that some row assigns,
\* the last row that assigns it (a later assignment to the same index
\* overwrites an earlier one) and the number of rows that assign it
Writes(off, rows) ==
  LET hit(i) == {j \in 1 .. Len(rows) : off + rows[j][1] = i}
      last(S) == CHOOSE j \in S : \A m \in S : m <= j
  IN [i \in {off + rows[j][1] : j \in 1 .. Len(rows)} |->
        [last |-> last(hit(i)), times |-> Cardinality(hit(i))]]

\* mutant: the entries that are not assigned are overwritten with the first
Store_fill(buf, wm, rows, col) ==
  [i \in {m \in DOMAIN wm : m \in DOMAIN buf} |-> rows[wm[i].last][col]]
     @@ [i \in DOMAIN buf |-> buf[0]]

\* mutant: x[i] += ... instead of x[i] = ...
Store_add(buf, wm, rows, col) ==
  [i \in {m \in DOMAIN wm : m \in DOMAIN buf} |->
      IF col = 2 THEN buf[i] + rows[wm[i].last][col]
      ELSE rows[wm[i].last][col]] @@ buf

\* one of the arrays afterwards (col = 2, 3, 4, 5 for x, y, z, w)
Store(buf, wm, rows, col) ==
  [i \in {m \in DOMAIN wm : m \in DOMAIN buf} |-> rows[wm[i].last][col]] @@ buf

\* each row assigns x[i], y[i], z[i] and w[i] once
Count(cnt, wm) ==
  [i \in {m \in DOMAIN wm : m \in DOMAIN cnt} |-> cnt[i] + wm[i].times] @@ cnt

Outside(buf, wm) == \E i \in DOMAIN wm : i \notin DOMAIN buf

\* int gen_oh(code, a, b, v, x + off, y + off, z + off, w + off), called by
\* the caller itself on buffers large enough for any code
gen_oh_call(code, a0, b0, v0, off, g) ==
  /\ pc = "idle"
  /\ \E r \in {gen_oh(code, a0, b0, v0)} : \E wm \in {Writes(off, r.rows)} :
     LET cap == off + Room IN
     /\ entry' = "gen_oh"
     /\ garbage' = g
     /\ x' = Store(Alloc(cap, g), wm, r.rows, 2)
     /\ y' = Store(Alloc(cap, g), wm, r.rows, 3)
     /\ z' = Store(Alloc(cap, g), wm, r.rows, 4)
     /\ w' = Store(Alloc(cap, <<g, 0, 0>>), wm, r.rows, 5)
     /\ wr' = Count(Alloc(cap, 0), wm)
     /\ oob' = Outside(Alloc(cap, g), wm)
     /\ call' = [code |-> code, a |-> a0, b |-> b0, v |-> v0, off |-> off]
     /\ gret' = r.num
     /\ trace' = <<<<code, off, r.num>>>>
     /\ stderr' = r.msg
     /\ ret' = r.num
     /\ pc' = IF r.exit THEN "exited" ELSE "done"
     /\ UNCHANGED <<order, rn, called, base, fn, tab, k, a, b, v, n, tret,
                    first, other>>

\* mutant: the table function keeps its n from the call before (no n = 0)
leb_order_routing_static(order0, g) ==
  LET id == Dispatch(order0) IN
  /\ pc = "idle"
  /\ entry' = "routing"
  /\ order' = order0
  /\ garbage' = g
  /\ IF g = Same
       THEN /\ UNCHANGED <<x, y, z, w>>
            /\ wr' = [i \in DOMAIN x |-> 0]
       ELSE /\ x' = Alloc(order0, g) /\ y' = Alloc(order0, g)
            /\ z' = Alloc(order0, g) /\ w' = Alloc(order0, <<g, 0, 0>>)
            /\ wr' = Alloc(order0, 0)
  /\ rn' = 0
  /\ IF id # NoTable
       THEN /\ called' = <<id>>
            /\ base' = 0
            /\ fn' = id /\ tab' = Table(id)
            /\ k' = 1 /\ a' = 0 /\ b' = 0 /\ n' = n
            /\ pc' = "ld"
            /\ UNCHANGED <<stderr, ret>>
       ELSE /\ stderr' = <<MsgRouting>>
            /\ ret' = 0
            /\ pc' = "done"
            /\ UNCHANGED <<called, base, fn, tab, k, a, b, n>>
  /\ UNCHANGED <<v, tret, oob, call, gret, trace, first, other>>

\* leb_order_routing(order, x, y, z, w) up to the call of the table function,
\* or all of it when no order matches; the caller's buffers hold max(order, 0)
\* entries
leb_order_routing(order0, g) ==
  LET id == Dispatch(order0) IN
  /\ pc = "idle"
  /\ entry' = "routing"
  /\ order' = order0
  /\ garbage' = g
  /\ IF g = Same
       THEN /\ UNCHANGED <<x, y, z, w>>
            /\ wr' = [i \in DOMAIN x |-> 0]
       ELSE /\ x' = Alloc(order0, g) /\ y' = Alloc(order0, g)
            /\ z' = Alloc(order0, g) /\ w' = Alloc(order0, <<g, 0, 0>>)
            /\ wr' = Alloc(order0, 0)
  /\ rn' = 0
  /\ IF id # NoTable
       THEN /\ called' = <<id>>
            /\ base' = 0
            /\ fn' = id /\ tab' = Table(id)
            /\ k' = 1 /\ a' = 0 /\ b' = 0 /\ n' = 0
            /\ pc' = "ld"
            /\ UNCHANGED <<stderr, ret>>
       ELSE /\ stderr' = <<MsgRouting>>
            /\ ret' = 0
            /\ pc' = "done"
            /\ UNCHANGED <<called, base, fn, tab, k, a, b, n>>
  /\ UNCHANGED <<v, tret, oob, call, gret, trace, first, other>>

\* mutant: n = gen_oh(...) instead of n = n + gen_oh(...)
ld_step_assign ==
  /\ pc = "ld"
  /\ k <= Len(tab)
  /\ LET row == tab[k]
         a1 == IF row[2] = Keep THEN a ELSE row[2]
         b1 == IF row[3] = Keep THEN b ELSE row[3]
         v1 == row[4]
         off == base + n
     IN \E r \in {gen_oh(row[1], a1, b1, v1)} : \E wm \in {Writes(off, r.rows)} :
        /\ a' = a1 /\ b' = b1 /\ v' = v1
        /\ x' = Store(x, wm, r.rows, 2)
        /\ y' = Store(y, wm, r.rows, 3)
        /\ z' = Store(z, wm, r.rows, 4)
        /\ w' = Store(w, wm, r.rows, 5)
        /\ wr' = Count(wr, wm)
        /\ oob' = (oob \/ Outside(x, wm))
        /\ call' = [code |-> row[1], a |-> a1, b |-> b1, v |-> v1, off |-> off]
        /\ gret' = r.num
        /\ trace' = Append(trace, <<row[1], off, r.num>>)
        /\ stderr' = stderr \o r.msg
        /\ IF r.exit
             THEN pc' = "exited" /\ UNCHANGED <<n, k>>
             ELSE pc' = "ld" /\ n' = r.num /\ k' = k + 1
  /\ UNCHANGED <<entry, order, rn, called, base, fn, tab, tret, ret, garbage,
                 first, other>>

\* mutant: a passed by reference: the a = 1.0 of class 1 reaches the table
ld_step_byref ==
  /\ pc = "ld"
  /\ k <= Len(tab)
  /\ LET row == tab[k]
         a1 == IF row[2] = Keep THEN a ELSE row[2]
         b1 == IF row[3] = Keep THEN b ELSE row[3]
         v1 == row[4]
         off == base + n
     IN \E r \in {gen_oh(row[1], a1, b1, v1)} : \E wm \in {Writes(off, r.rows)} :
        /\ a' = (IF row[1] = 1 THEN One ELSE a1) /\ b' = b1 /\ v' = v1
        /\ x' = Store(x, wm, r.rows, 2)
        /\ y' = Store(y, wm, r.rows, 3)
        /\ z' = Store(z, wm, r.rows, 4)
        /\ w' = Store(w, wm, r.rows, 5)
        /\ wr' = Count(wr, wm)
        /\ oob' = (oob \/ Outside(x, wm))
        /\ call' = [code |-> row[1], a |-> a1, b |-> b1, v |-> v1, off |-> off]
        /\ gret' = r.num
        /\ trace' = Append(trace, <<row[1], off, r.num>>)
        /\ stderr' = stderr \o r.msg
        /\ IF r.exit
             THEN pc' = "exited" /\ UNCHANGED <<n, k>>
             ELSE pc' = "ld" /\ n' = n + r.num /\ k' = k + 1
  /\ UNCHANGED <<entry, order, rn, called, base, fn, tab, tret, ret, garbage,
                 first, other>>

\* the table function: the assignments to a, b and v of its next row and the
\* statement n = n + gen_oh(code, a, b, v, x + n, y + n, z + n, w + n)
ld_step ==
  /\ pc = "ld"
  /\ k <= Len(tab)
  /\ LET row == tab[k]
         a1 == IF row[2] = Keep THEN a ELSE row[2]
         b1 == IF row[3] = Keep THEN b ELSE row[3]
         v1 == row[4]
         off == base + n
     IN \E r \in {gen_oh(row[1], a1, b1, v1)} : \E wm \in {Writes(off, r.rows)} :
        /\ a' = a1 /\ b' = b1 /\ v' = v1
        /\ x' = Store(x, wm, r.rows, 2)
        /\ y' = Store(y, wm, r.rows, 3)
        /\ z' = Store(z, wm, r.rows, 4)
        /\ w' = Store(w, wm, r.rows, 5)
        /\ wr' = Count(wr, wm)
        /\ oob' = (oob \/ Outside(x, wm))
        /\ call' = [code |-> row[1], a |-> a1, b |-> b1, v |-> v1, off |-> off]
        /\ gret' = r.num
        /\ trace' = Append(trace, <<row[1], off, r.num>>)
        /\ stderr' = stderr \o r.msg
        /\ IF r.exit
             THEN pc' = "exited" /\ UNCHANGED <<n, k>>
             ELSE pc' = "ld" /\ n' = n + r.num /\ k' = k + 1
  /\ UNCHANGED <<entry, order, rn, called, base, fn, tab, tret, ret, garbage,
                 first, other>>

\* mutant: the table function waits for one more row than it has
ld_return_never ==
  /\ pc = "ld"
  /\ k > Len(tab) + 1
  /\ tret' = n
  /\ rn' = n
  /\ pc' = "ret"
  /\ UNCHANGED <<entry, order, called, base, fn, tab, k, a, b, v, n,
                 x, y, z, w, wr, oob, call, gret, trace, stderr, ret, garbage,
                 first, other>>

\* the table function: return n; leb_order_routing assigns it to its n
ld_return ==
  /\ pc = "ld"
  /\ k > Len(tab)
  /\ tret' = n
  /\ rn' = n
  /\ pc' = "ret"
  /\ UNCHANGED <<entry, order, called, base, fn, tab, k, a, b, v, n,
                 x, y, z, w, wr, oob, call, gret, trace, stderr, ret, garbage,
                 first, other>>

\* leb_order_routing: return n
routing_return ==
  /\ pc = "ret"
  /\ ret' = rn
  /\ pc' = "done"
  /\ UNCHANGED <<entry, order, rn, called, base, fn, tab, k, a, b, v, n,
                 tret, x, y, z, w, wr, oob, call, gret, trace, stderr, garbage,
                 first, other>>

\* what the caller passes
Codes    == 0 .. 7
Coords   == {i * (One \div 6) : i \in (0 - 1) .. MaxA}
Weights  == {<<h, 0, 0>> : h \in (0 - MaxV) .. MaxV}
Offsets  == 0 .. MaxOff
Garbages == 0 .. MaxGarbage
Orders   == Supported \cup (0 .. MaxProbe) \cup {0 - 1}

Next ==
  \/ /\ pc = "idle"
     /\ \E code \in Codes, a0 \in Coords, b0 \in Coords, v0 \in Weights,
           off \in Offsets, g \in Garbages : gen_oh_call(code, a0, b0, v0, off, g)
  \/ /\ pc = "idle"
     /\ \E order0 \in Orders, g \in Garbages : leb_order_routing(order0, g)
  \/ ld_step
  \/ ld_return
  \/ routing_return

Spec == Init /\ [][Next]_vars

\* ------------------------------------------------------- calling once more
\* the entries the call wrote, and the value it returned
Snapshot ==
  [entry |-> entry, order |-> order, call |-> call, garbage |-> garbage,
   ret |-> ret,
   pts |-> [i \in {j \in DOMAIN wr : wr[j] > 0} |-> <<x[i], y[i], z[i], w[i]>>]]

\* the caller, after its first call has returned, is about to call again:
\* the functions keep no static data, but the locals of the first call are
\* left as they were (the next call finds them as stale stack contents)
again ==
  /\ pc = "done"
  /\ first = NoRun
  /\ first' = Snapshot
  /\ pc' = "idle"
  /\ oob' = FALSE /\ call' = NoCall /\ gret' = 0 /\ trace' = <<>>
  /\ stderr' = <<>> /\ called' = <<>>
  /\ UNCHANGED <<entry, order, rn, base, fn, tab, k, a, b, v, n, tret,
                 x, y, z, w, wr, ret, garbage, other>>

\* what the caller passes when it calls twice
CoordsAgain == {i * (One \div 6) : i \in 0 .. MaxAgain}
OrdersAgain == {n0 \in Orders : n0 <= MaxOrderAgain}

NextAgain ==
  \/ /\ pc = "idle"
     /\ \E code \in Codes, a0 \in CoordsAgain, off \in Offsets, g \in Garbages :
           gen_oh_call(code, a0, a0, <<MaxV, 0, 0>>, off, g)
  \/ /\ pc = "idle"
     /\ \E order0 \in OrdersAgain, g \in Garbages \cup {Same} :
           /\ g = Same => (first # NoRun /\ order0 <= Cardinality(DOMAIN x))
           /\ leb_order_routing(order0, g)
  \/ ld_step
  \/ ld_return
  \/ routing_return
  \/ again

SpecAgain == Init /\ [][NextAgain]_vars

\* ------------------------------------------------------------ termination
\* leb_order_routing alone; a call that has been entered runs on: each
\* statement of the straight-line code is executed once control reaches it
NextLive ==
  \/ /\ pc = "idle"
     /\ \E order0 \in Orders : leb_order_routing(order0, 0)
  \/ ld_step
  \/ ld_return
  \/ routing_return

SpecLive ==
  /\ Init /\ [][NextLive]_vars
  /\ WF_vars(ld_step) /\ WF_vars(ld_return) /\ WF_vars(routing_return)

\* ------------------------------------------------------------ two threads
\* what belongs to one call: its position, its arguments and locals (automatic
\* variables), the buffers its caller passed, and what is recorded about it
Thread ==
  [pc |-> pc, entry |-> entry, order |-> order, rn |-> rn,
   called |-> called, base |-> base, fn |-> fn, tab |-> tab,
   k |-> k, a |-> a, b |-> b, v |-> v,
   n |-> n, tret |-> tret, x |-> x, y |-> y,
   z |-> z, w |-> w, wr |-> wr, oob |-> oob,
   call |-> call, gret |-> gret, trace |-> trace, ret |-> ret,
   garbage |-> garbage]

\* a second thread is created while the first is inside its call or has
\* returned from it; it has not called yet, and its stack holds anything
fork ==
  /\ other = NoThread
  /\ pc \notin {"idle", "exited"}
  /\ other' = Thread
  /\ pc' = "idle"
  /\ oob' = FALSE /\ call' = NoCall /\ gret' = 0 /\ trace' = <<>>
  /\ called' = <<>>
  /\ UNCHANGED <<entry, order, rn, base, fn, tab, k, a, b, v, n, tret,
                 x, y, z, w, wr, ret, garbage, stderr, first>>

\* mutant: n is a static variable: both threads use the same n
switch_static ==
  /\ other # NoThread
  /\ pc # "idle"
  /\ other' = Thread
  /\ pc' = other.pc /\ entry' = other.entry /\ order' = other.order
  /\ rn' = other.rn /\ called' = other.called /\ base' = other.base
  /\ fn' = other.fn /\ tab' = other.tab /\ k' = other.k
  /\ a' = other.a /\ b' = other.b /\ v' = other.v
  /\ n' = n /\ tret' = other.tret /\ x' = other.x
  /\ y' = other.y /\ z' = other.z /\ w' = other.w
  /\ wr' = other.wr /\ oob' = other.oob /\ call' = other.call
  /\ gret' = other.gret /\ trace' = other.trace /\ ret' = other.ret
  /\ garbage' = other.garbage
  /\ UNCHANGED <<stderr, first>>

\* the scheduler runs the other thread: nothing of a call is shared, the
\* file has no global and no static variable
switch ==
  /\ other # NoThread
  /\ pc # "idle"
  /\ other' = Thread
  /\ pc' = other.pc /\ entry' = other.entry /\ order' = other.order
  /\ rn' = other.rn /\ called' = other.called /\ base' = other.base
  /\ fn' = other.fn /\ tab' = other.tab /\ k' = other.k
  /\ a' = other.a /\ b' = other.b /\ v' = other.v
  /\ n' = other.n /\ tret' = other.tret /\ x' = other.x
  /\ y' = other.y /\ z' = other.z /\ w' = other.w
  /\ wr' = other.wr /\ oob' = other.oob /\ call' = other.call
  /\ gret' = other.gret /\ trace' = other.trace /\ ret' = other.ret
  /\ garbage' = other.garbage
  /\ UNCHANGED <<stderr, first>>

\* the orders the two threads request
OrdersPair == {n0 \in Supported : n0 <= MaxOrderPair} \cup {0}

NextPair ==
  \/ /\ pc = "idle"
     /\ \E order0 \in OrdersPair, g \in Garbages : leb_order_routing(order0, g)
  \/ ld_step
  \/ ld_return
  \/ routing_return
  \/ fork
  \/ switch

SpecPair == Init /\ [][NextPair]_vars

\* ------------------------------------------------- a corrupted class code
\* the literal class code of row j of the table function that has just been
\* entered is c instead
corrupt(j, c) ==
  /\ pc = "ld" /\ k = 1
  /\ tab = Table(fn)
  /\ j \in 1 .. Len(tab)
  /\ tab' = [tab EXCEPT ![j][1] = c]
  /\ UNCHANGED <<pc, entry, order, rn, called, base, fn, k, a, b, v, n, tret,
                 x, y, z, w, wr, oob, call, gret, trace, stderr, ret, garbage,
                 first, other>>

BadCodes      == Codes \ (1 .. 6)
OrdersCorrupt == {n0 \in Supported : n0 <= MaxOrderCorrupt}

NextCorrupt ==
  \/ /\ pc = "idle"
     /\ \E code \in Codes, a0 \in CoordsAgain, off \in Offsets, g \in Garbages :
           gen_oh_call(code, a0, a0, <<MaxV, 0, 0>>, off, g)
  \/ /\ pc = "idle"
     /\ \E order0 \in OrdersCorrupt, g \in Garbages : leb_order_routing(order0, g)
  \/ /\ pc = "ld"
     /\ \E j \in 1 .. Len(tab), c \in BadCodes : corrupt(j, c)
  \/ ld_step
  \/ ld_return
  \/ routing_return

SpecCorrupt == Init /\ [][NextCorrupt]_vars

\* =================================================================== claims

\* the point counts of the six classes, as the specification states them
ExpectedCount == <<6, 12, 8, 24, 24, 48>>

RECURSIVE SumRet(_)
SumRet(t) == IF t = <<>> THEN 0 ELSE t[Len(t)][3] + SumRet(SubSeq(t, 1, Len(t) - 1))

\* the indices of the caller's buffers that the latest gen_oh call reports
\* to have written
Cells == call.off .. call.off + gret - 1

\* C1: once the table function ldNNNN has returned, the value it returned is
\* N, every gen_oh call it made had a class code in 1 .. 6 and returned the
\* count of that class, and these counts add up to N
C1_TableReturnsOrder ==
  (pc \in {"ret", "done"} /\ fn # NoTable) =>
     /\ tret = fn
     /\ Len(trace) = Len(Table(fn))
     /\ \A j \in 1 .. Len(trace) :
           /\ trace[j][1] \in 1 .. 6
           /\ trace[j][3] = ExpectedCount[trace[j][1]]
     /\ SumRet(trace) = fn

C1_Witness ==
  /\ pc = "done" /\ fn = 146 /\ tret = 146
  /\ Len(trace) = 7 /\ trace[7] = <<6, 98, 48>>

\* C2: for a supported order N, leb_order_routing invokes exactly one table
\* function, ldNNNN, on the caller's buffers at offset 0, and returns the
\* value that function returned, which is N
C2_RoutingCallsItsTable ==
  (entry = "routing" /\ order \in Supported) =>
     /\ called = <<order>>
     /\ fn = order
     /\ base = 0
     /\ trace # <<>> => trace[1][2] = 0
     /\ pc = "done" => (ret = tret /\ ret = order)

C2_Witness ==
  /\ entry = "routing" /\ pc = "done" /\ order = 146
  /\ called = <<146>> /\ ret = 146

\* C3: for an order that is not supported, leb_order_routing reports the
\* unsupported order, invokes no table function (and so no gen_oh), writes no
\* entry of x, y, z or w, and returns 0 points
C3_UnsupportedOrder ==
  (entry = "routing" /\ order \notin Supported) =>
     /\ pc = "done"
     /\ stderr = <<MsgRouting>>
     /\ called = <<>> /\ trace = <<>>
     /\ ret = 0
     /\ ~oob
     /\ \A i \in DOMAIN x :
           /\ wr[i] = 0
           /\ x[i] = garbage /\ y[i] = garbage /\ z[i] = garbage
           /\ w[i] = <<garbage, 0, 0>>

C3_Witness ==
  /\ entry = "routing" /\ pc = "done" /\ order = 7
  /\ stderr = <<MsgRouting>> /\ called = <<>> /\ ret = 0
  /\ DOMAIN x = 0 .. 6 /\ \A i \in 0 .. 6 : wr[i] = 0

\* C4: a gen_oh call with a class code outside 1 .. 6 ends in a fault: the
\* process is ended, or the caller receives a value that is no point count
\* (a negative value), rather than a positive value of the same kind as the
\* counts of the successful expansions
C4_BadCodeIsFault ==
  (trace # <<>> /\ call.code \notin 1 .. 6) => (pc = "exited" \/ gret < 0)

\* C5: for a class code in 1 .. 6 gen_oh returns the count of its class,
\* which is the number of entries this call wrote, whatever a, b, v, the
\* write offset and the calls made before it
C5_LocalCount ==
  (trace # <<>> /\ call.code \in 1 .. 6) =>
     /\ gret = ExpectedCount[call.code]
     /\ \A i \in Cells : i \in DOMAIN wr /\ wr[i] = 1
     /\ \A i \in DOMAIN wr : i >= call.off + gret => wr[i] = 0
     /\ trace[Len(trace)] = <<call.code, call.off, gret>>

C5_Witness ==
  /\ entry = "routing" /\ fn = 146 /\ Len(trace) = 5
  /\ call.code = 4 /\ call.off = 50 /\ gret = 24 /\ n = 74

\* the octahedral orbit of a point: every permutation of the three axes
\* combined with every sign flip of each coordinate
Perms(p) ==
  { <<p[1], p[2], p[3]>>, <<p[1], p[3], p[2]>>, <<p[2], p[1], p[3]>>,
    <<p[2], p[3], p[1]>>, <<p[3], p[1], p[2]>>, <<p[3], p[2], p[1]>> }
Flips(p) ==
  { <<s1 * p[1], s2 * p[2], s3 * p[3]>> : s1 \in {0 - 1, 1}, s2 \in {0 - 1, 1}, s3 \in {0 - 1, 1} }
Orbit(p) == UNION { Flips(q) : q \in Perms(p) }

\* the number under the square root of classes 4, 5 and 6, in units of 1/One
Radicand(code, a0, b0) ==
  IF code = 4 THEN One - 2 * Sq(a0)
  ELSE IF code = 5 THEN One - Sq(a0)
  ELSE IF code = 6 THEN One - Sq(a0) - Sq(b0)
  ELSE 0

\* the representative of a class, as the specification states it; the
\* coordinate whose square is r is written r
Representative(code, a0, b0) ==
  IF code = 1 THEN <<One, 0, 0>>
  ELSE IF code = 2 THEN <<0, One \div 2, One \div 2>>
  ELSE IF code = 3 THEN <<One \div 3, One \div 3, One \div 3>>
  ELSE IF code = 4 THEN <<a0, a0, Radicand(4, a0, b0)>>
  ELSE IF code = 5 THEN <<a0, Radicand(5, a0, b0), 0>>
  ELSE <<a0, b0, Radicand(6, a0, b0)>>

\* the points the latest gen_oh call wrote
Written == { <<x[i], y[i], z[i]>> : i \in Cells }

\* C6: for a class code in 1 .. 6 (and a radicand that is not negative) the
\* set of points gen_oh wrote is the octahedral orbit of the representative
\* of the class: no orbit point is missing and no other point is written
C6_FullOrbit ==
  (trace # <<>> /\ call.code \in 1 .. 6 /\ Radicand(call.code, call.a, call.b) >= 0) =>
     Written = Orbit(Representative(call.code, call.a, call.b))

C6_Witness ==
  /\ entry = "gen_oh" /\ call.code = 6
  /\ call.a = One \div 6 /\ call.b = One \div 3
  /\ Cardinality(Written) = 48
  /\ <<0 - (One \div 2), One \div 3, 0 - (One \div 6)>> \in Written

\* C7: every entry of w that a gen_oh call with a class code in 1 .. 6 wrote
\* is the weight v it was given, negative or not; and when a table function
\* has returned, the entries of w that each of its rows wrote hold the weight
\* literal of that row
C7_WeightPreserved ==
  /\ (trace # <<>> /\ call.code \in 1 .. 6) => \A i \in Cells : w[i] = call.v
  /\ (pc = "done" /\ fn # NoTable) =>
        \A j \in 1 .. Len(trace) :
           \A i \in trace[j][2] .. trace[j][2] + trace[j][3] - 1 :
              w[i] = Table(fn)[j][4]

C7_Witness ==
  /\ pc = "done" /\ fn = 74
  /\ Table(74)[3][4][1] < 0
  /\ \A i \in 18 .. 25 : w[i] = Table(74)[3][4]

\* the six signed coordinate axes, in the order the specification lists them
Axes ==
  << <<One, 0, 0>>, <<0 - One, 0, 0>>, <<0, One, 0>>, <<0, 0 - One, 0>>,
     <<0, 0, One>>, <<0, 0, 0 - One>> >>

\* C8: a gen_oh call with class code 1 writes the six signed coordinate
\* axes, each with weight v, writes nothing after them, and returns 6,
\* whatever a and b are
C8_AxisPoints ==
  (trace # <<>> /\ call.code = 1) =>
     /\ gret = 6
     /\ \A i \in 0 .. 5 :
           /\ <<x[call.off + i], y[call.off + i], z[call.off + i]>> = Axes[i + 1]
           /\ w[call.off + i] = call.v
     /\ \A i \in DOMAIN wr : i >= call.off + 6 => wr[i] = 0

C8_Witness ==
  /\ entry = "gen_oh" /\ call.code = 1
  /\ call.a = One \div 2 /\ call.b = One \div 3
  /\ gret = 6 /\ x[call.off] = One /\ z[call.off + 5] = 0 - One

\* x[i]^2 + y[i]^2 + z[i]^2 = 1
OnSphere(i) ==
  /\ x[i] # NaN /\ y[i] # NaN /\ z[i] # NaN
  /\ Sq(x[i]) + Sq(y[i]) + Sq(z[i]) = One

\* the inputs for which the specification states the property: a radicand
\* that is not negative for classes 4 and 5, 0 < a, b and a^2 + b^2 < 1 for
\* class 6
SphereInputs(code, a0, b0) ==
  /\ code \in 1 .. 6
  /\ code \in {4, 5} => Radicand(code, a0, b0) >= 0
  /\ code = 6 => (a0 > 0 /\ b0 > 0 /\ Sq(a0) + Sq(b0) < One)

\* C9: every point a gen_oh call wrote lies on the unit sphere, and when
\* leb_order_routing has returned for a supported order N, every one of the
\* N points does
C9_UnitSphere ==
  /\ (trace # <<>> /\ SphereInputs(call.code, call.a, call.b)) =>
        \A i \in Cells : OnSphere(i)
  /\ (entry = "routing" /\ pc = "done" /\ order \in Supported) =>
        \A i \in 0 .. order - 1 : OnSphere(i)

C9_Witness ==
  /\ entry = "gen_oh" /\ call.code = 6
  /\ call.a = One \div 6 /\ call.b = One \div 3
  /\ z[call.off] = One \div 2 /\ OnSphere(call.off + 47)

\* exact decimal arithmetic on weights <<h, m, l>>
Base == 10^7
WNorm(h, m, l) ==
  LET m1 == m + (l \div Base)
  IN <<h + (m1 \div Base), m1 % Base, l % Base>>
WAdd(p, q) == WNorm(p[1] + q[1], p[2] + q[2], p[3] + q[3])
WSub(p, q) == WNorm(p[1] - q[1], p[2] - q[2], p[3] - q[3])
WLess(p, q) ==
  \/ p[1] < q[1]
  \/ p[1] = q[1] /\ p[2] < q[2]
  \/ p[1] = q[1] /\ p[2] = q[2] /\ p[3] < q[3]

\* w[lo] + ... + w[hi]
RECURSIVE WSum(_, _)
WSum(lo, hi) ==
  IF lo > hi THEN <<0, 0, 0>>
  ELSE IF lo = hi THEN w[lo]
  ELSE LET mid == (lo + hi) \div 2 IN WAdd(WSum(lo, mid), WSum(mid + 1, hi))

WOne   == <<Base, 0, 0>>                        \* 1
FourPi == <<125663706, 1435917, 2953851>>       \* 4 pi = 12.566370614359172953851
Tol    == <<0, 10^4, 0>>                        \* the tolerance 10^-10

\* |p - t| < Tol
Near(p, t) == WLess(WSub(t, Tol), p) /\ WLess(p, WAdd(t, Tol))

\* C10 as stated: when the rule of a supported order N has been produced, the
\* sum of the weights w[0 .. N-1] is 4 pi within the tolerance
C10_WeightsSumToFourPi ==
  (entry = "routing" /\ pc = "done" /\ order \in Supported) =>
     Near(WSum(0, order - 1), FourPi)

\* C10 as amended: when the rule of a supported order N has been produced,
\* the sum of the weights w[0 .. N-1] is 1 within the tolerance (the tables
\* are normalised to 1; the factor 4 pi is left to the caller)
C10_WeightsSumToOne ==
  (entry = "routing" /\ pc = "done" /\ order \in Supported) =>
     Near(WSum(0, order - 1), WOne)

C10_Witness ==
  /\ entry = "routing" /\ pc = "done" /\ order = 26
  /\ Near(WSum(0, 25), WOne)
  /\ ~Near(WSum(0, 25), FourPi)

\* the weight literal 0.1666666666666667 of the smallest rule
Sixth == <<1666666, 6666666, 6700000>>

\* C11: when leb_order_routing (through ld0006) has produced the rule of
\* order 6, indices 0 .. 5 hold the six signed coordinate axes in the listed
\* order, each with weight 0.1666666666666667, every index was written once,
\* nothing else was written and 6 was returned
C11_RuleOfOrder6 ==
  (entry = "routing" /\ order = 6 /\ pc = "done") =>
     /\ called = <<6>> /\ tret = 6 /\ ret = 6
     /\ trace = << <<1, 0, 6>> >>
     /\ DOMAIN x = 0 .. 5
     /\ \A i \in 0 .. 5 :
           /\ <<x[i], y[i], z[i]>> = Axes[i + 1]
           /\ w[i] = Sixth
           /\ wr[i] = 1
     /\ ~oob /\ stderr = <<>>

C11_Witness ==
  /\ entry = "routing" /\ order = 6 /\ pc = "done" /\ ret = 6
  /\ <<x[3], y[3], z[3]>> = <<0, 0 - One, 0>> /\ w[3] = Sixth

\* C12: the rule of order 26 is produced by exactly three gen_oh calls, with
\* class codes 1, 2, 3 in that order, at offsets 0, 6 and 18, each with
\* a = b = 0, and ld0026 returns 26
C12_RuleOfOrder26 ==
  (entry = "routing" /\ order = 26) =>
     /\ trace # <<>> => (call.a = 0 /\ call.b = 0)
     /\ Len(trace) <= 3
     /\ \A j \in 1 .. Len(trace) :
           trace[j] = << <<1, 0, 6>>, <<2, 6, 12>>, <<3, 18, 8>> >>[j]
     /\ pc \in {"ret", "done"} => (Len(trace) = 3 /\ tret = 26)

C12_Witness ==
  /\ entry = "routing" /\ order = 26 /\ pc = "done" /\ ret = 26
  /\ trace = << <<1, 0, 6>>, <<2, 6, 12>>, <<3, 18, 8>> >>
  /\ call.a = 0 /\ call.b = 0

\* C13: inside a table function and after it, the rows were replayed in table
\* order, one gen_oh call per row; the first call wrote at offset 0 and each
\* later one at the offset of the call before it plus the count that call
\* returned; n is the offset after the latest call (the sum of the counts so
\* far); every index below n has been written exactly once and no index from
\* n on has been written; the function returns the final n
C13_RunningOffset ==
  (fn # NoTable /\ pc \in {"ld", "ret", "done"}) =>
     /\ Len(trace) = k - 1
     /\ \A j \in 1 .. Len(trace) :
           /\ trace[j][1] = Table(fn)[j][1]
           /\ trace[j][2] = IF j = 1 THEN 0 ELSE trace[j - 1][2] + trace[j - 1][3]
     /\ n = IF trace = <<>> THEN 0 ELSE trace[Len(trace)][2] + trace[Len(trace)][3]
     /\ \A i \in DOMAIN wr : wr[i] = IF i < n THEN 1 ELSE 0
     /\ ~oob
     /\ pc \in {"ret", "done"} => (k = Len(Table(fn)) + 1 /\ tret = n)

C13_Witness ==
  /\ fn = 74 /\ pc = "ld" /\ k = 4 /\ n = 26
  /\ trace = << <<1, 0, 6>>, <<2, 6, 12>>, <<3, 18, 8>> >>
  /\ wr[25] = 1 /\ wr[26] = 0

\* C14: a gen_oh call with a class code in 1 .. 6 assigns every index
\* 0 .. count - 1 (relative to the pointers it received) exactly once and no
\* other index, count being the value it returns; in the caller's buffers the
\* entries from its offset on are written once up to the count and not beyond
C14_WritesExactlyCount ==
  (trace # <<>> /\ call.code \in 1 .. 6) =>
     \A rows \in {gen_oh(call.code, call.a, call.b, call.v).rows} :
     /\ \A j \in 1 .. Len(rows) : rows[j][1] \in 0 .. gret - 1
     /\ \A i \in 0 .. gret - 1 :
           /\ Cardinality({j \in 1 .. Len(rows) : rows[j][1] = i}) = 1
           /\ wr[call.off + i] = 1
     /\ \A i \in DOMAIN wr : i >= call.off + gret => wr[i] = 0
     /\ entry = "gen_oh" =>
           \A i \in DOMAIN wr :
              (i >= call.off + gret \/ i < call.off) =>
                 (wr[i] = 0 /\ x[i] = garbage /\ y[i] = garbage /\ z[i] = garbage
                  /\ w[i] = <<garbage, 0, 0>>)

C14_Witness ==
  /\ entry = "gen_oh" /\ call.code = 2 /\ call.off = 1 /\ gret = 12
  /\ garbage = 1 /\ x[0] = 1 /\ wr[0] = 0 /\ wr[1] = 1 /\ wr[12] = 1
  /\ wr[13] = 0 /\ z[13] = 1

\* the value of the local a (col = 2) or b (col = 3) of a table function at
\* the call of its row j: the latest literal assigned, 0.0 when there is none
RECURSIVE Local(_, _, _)
Local(t, j, col) ==
  IF j = 0 THEN 0
  ELSE IF t[j][col] # Keep THEN t[j][col]
  ELSE Local(t, j - 1, col)

\* the entries from off on hold the points of gen_oh(code, a0, b0, v0)
Holds(off, code, a0, b0, v0) ==
  \A rows \in {gen_oh(code, a0, b0, v0).rows} :
     \A m \in 1 .. Len(rows) :
        <<rows[m][1], x[off + rows[m][1]], y[off + rows[m][1]],
          z[off + rows[m][1]], w[off + rows[m][1]]>> = rows[m]

\* C15: a gen_oh call leaves the entries below its offset as they were, and
\* what it writes and returns is fixed by its arguments, not by what the
\* buffers held: after a direct call the entries below the offset still hold
\* the initial contents and the entries of the call hold the points of its
\* arguments; when a table function has returned, the range of every row
\* still holds the points of that row, so the final buffers are the same for
\* any initial contents
C15_AppendOnly ==
  /\ (entry = "gen_oh" /\ pc = "done" /\ call.code \in 1 .. 6) =>
        /\ \A i \in 0 .. call.off - 1 :
              /\ x[i] = garbage /\ y[i] = garbage /\ z[i] = garbage
              /\ w[i] = <<garbage, 0, 0>>
        /\ Holds(call.off, call.code, call.a, call.b, call.v)
        /\ gret = gen_oh(call.code, 0, 0, <<0, 0, 0>>).num
  /\ (fn # NoTable /\ pc \in {"ret", "done"}) =>
        /\ \A j \in 1 .. Len(trace) :
              Holds(trace[j][2], Table(fn)[j][1], Local(Table(fn), j, 2),
                    Local(Table(fn), j, 3), Table(fn)[j][4])
        /\ tret = order

C15_Witness ==
  /\ entry = "routing" /\ order = 86 /\ pc = "done" /\ garbage = 1
  /\ Len(trace) = 5 /\ x[0] = One /\ w[0] = Table(86)[1][4]
  /\ w[85] = Table(86)[5][4]

\* C16: leb_order_routing with a supported order N on buffers of capacity
\* exactly N never writes outside them: no write of any call falls outside
\* 0 .. N-1, every call made so far ends at or before N, the last one included
C16_NoWriteOutOfBounds ==
  (entry = "routing" /\ order \in Supported) =>
     /\ ~oob
     /\ DOMAIN x = 0 .. order - 1 /\ DOMAIN w = 0 .. order - 1
     /\ \A j \in 1 .. Len(trace) :
           /\ trace[j][2] >= 0
           /\ trace[j][2] + trace[j][3] <= order
     /\ trace # <<>> =>
           /\ call.off + gret <= order
           /\ \A rows \in {gen_oh(call.code, call.a, call.b, call.v).rows} :
                 \A m \in 1 .. Len(rows) :
                    call.off + rows[m][1] \in 0 .. order - 1

C16_Witness ==
  /\ entry = "routing" /\ order = 230 /\ pc = "ret"
  /\ Len(trace) = Len(Table(230)) /\ call.off + gret = 230
  /\ wr[229] = 1 /\ ~oob

\* C17: whatever order leb_order_routing is called with, every gen_oh call
\* it leads to has a class code in 1 .. 6, so the message of the invalid-class
\* branch is never printed
C17_ClassAlwaysValid ==
  entry = "routing" =>
     /\ \A j \in 1 .. Len(trace) : trace[j][1] \in 1 .. 6
     /\ trace # <<>> => call.code \in 1 .. 6
     /\ \A j \in 1 .. Len(stderr) : stderr[j] # MsgGenOh
     /\ order \notin Supported => trace = <<>> /\ called = <<>>

C17_Witness ==
  /\ entry = "routing" /\ order = 170 /\ pc = "done"
  /\ {trace[j][1] : j \in 1 .. Len(trace)} = 1 .. 6
  /\ Len(trace) = 8 /\ stderr = <<>>

\* a coordinate of the entries of the current call is NaN
NaNWritten ==
  \E i \in call.off .. call.off + gret - 1 :
     i \in DOMAIN x /\ (x[i] = NaN \/ y[i] = NaN \/ z[i] = NaN)

\* C18 (as stated): a gen_oh call of class 4, 5 or 6 with a negative radicand
\* reports a fault (a message, or the end of the process) and does not write
\* NaN coordinates while returning the normal count
C18_NegativeRadicandIsFault ==
  (entry = "gen_oh" /\ pc \in {"done", "exited"} /\ call.code \in 4 .. 6
     /\ Radicand(call.code, call.a, call.b) < 0) =>
        /\ stderr # <<>> \/ pc = "exited"
        /\ ~(NaNWritten /\ gret = ExpectedCount[call.code])

\* C19: every gen_oh call of every table is made with the a and b in effect
\* at its row, its radicand (of class 4, 5 or 6) is not negative, and no
\* coordinate it writes is NaN
C19_RadicandsNonNegative ==
  (entry = "routing" /\ trace # <<>>) =>
     /\ call.code = Table(fn)[Len(trace)][1]
     /\ call.a = Local(Table(fn), Len(trace), 2)
     /\ call.b = Local(Table(fn), Len(trace), 3)
     /\ Radicand(call.code, call.a, call.b) >= 0
     /\ ~NaNWritten

C19_Witness ==
  /\ entry = "routing" /\ fn = 146 /\ pc = "ld" /\ Len(trace) = 4
  /\ call.code = 4 /\ call.a = 137271744
  /\ Radicand(call.code, call.a, call.b) = One - 2 * 137271744
  /\ z[26] = One - 2 * 137271744

\* the call that has returned had the arguments of the caller's first call
SameArguments ==
  /\ first.entry = entry
  /\ IF entry = "routing" THEN first.order = order ELSE first.call = call

\* C20: a second call with the arguments of the first returns the same count
\* and writes the same values to the same entries, whatever the first call
\* left behind and whatever the buffers of either call held on entry
C20_SameArgumentsSameResult ==
  (first # NoRun /\ pc = "done" /\ SameArguments) =>
     /\ ret = first.ret
     /\ Snapshot.pts = first.pts

C20_Witness ==
  /\ first # NoRun /\ pc = "done" /\ SameArguments
  /\ entry = "routing" /\ order = 14 /\ ret = 14
  /\ first.garbage = 0 /\ garbage = 1
  /\ DOMAIN first.pts = 0 .. 13 /\ w[13] = first.pts[13][4]

Generic(code, a0, b0) ==
  \A r \in {Radicand(code, a0, b0)} :
     IF code \in {4, 5} THEN Sq(a0) # 0 /\ r > 0 /\ Sq(a0) # r
     ELSE IF code = 6
       THEN Sq(a0) # 0 /\ Sq(b0) # 0 /\ r > 0
            /\ Sq(a0) # Sq(b0) /\ Sq(a0) # r /\ Sq(b0) # r
     ELSE code \in 1 .. 3

\* C24: when the magnitudes of the class are nonzero and pairwise different
\* (always, for classes 1, 2 and 3) the points one gen_oh call writes are
\* pairwise distinct: as many different points as the count it returns
C24_PointsDistinct ==
  (trace # <<>> /\ Generic(call.code, call.a, call.b)) =>
     /\ gret = ExpectedCount[call.code]
     /\ Cardinality(Written) = gret
     /\ \A i \in Cells : x[i] # NaN /\ y[i] # NaN /\ z[i] # NaN

C24_Witness ==
  /\ entry = "gen_oh" /\ call.code = 4 /\ call.off = 0
  /\ call.a = One \div 6 /\ Generic(4, call.a, call.b)
  /\ z[0] = 4 * (One \div 6) /\ Cardinality(Written) = 24

\* C26: a gen_oh call leaves the a and b of the table function as they were
\* passed: after every call a and b are the values the call received, which
\* are the latest literals the table assigned (0.0 when it assigned none),
\* and the row of every class 6 call assigns both a and b
C26_GeneratorsUnchanged ==
  (entry = "routing" /\ fn # NoTable /\ trace # <<>>) =>
     /\ a = call.a /\ b = call.b
     /\ a = Local(Table(fn), Len(trace), 2)
     /\ b = Local(Table(fn), Len(trace), 3)
     /\ call.code \in {1, 2, 3} => Table(fn)[Len(trace)][2] = Keep
     /\ call.code = 6 =>
           /\ Table(fn)[Len(trace)][2] # Keep
           /\ Table(fn)[Len(trace)][3] # Keep

C26_Witness ==
  /\ entry = "routing" /\ fn = 170 /\ pc = "ld" /\ Len(trace) = 3
  /\ call.code = 3 /\ a = 0 /\ b = 0 /\ x[18] = One \div 3

\* the points of the class whose representative does not depend on a and b
FixedOrbit(code) == Orbit(Representative(code, 0, 0))

\* C27: in every table class 1 is called exactly once, first, and classes 2
\* and 3 at most once each; when the table has returned, the buffers hold the
\* 6 axis points once, and the 12 points of class 2 and the 8 points of
\* class 3 once if the table calls the class and not at all otherwise
C27_FixedOrbitsOnce ==
  (entry = "routing" /\ fn # NoTable /\ trace # <<>>) =>
     /\ trace[1][1] = 1
     /\ \A c \in 1 .. 3 :
           Cardinality({j \in 1 .. Len(trace) : trace[j][1] = c}) <= 1
     /\ pc = "done" =>
           \A c \in 1 .. 3 : \A S \in {FixedOrbit(c)} :
              Cardinality({i \in DOMAIN x : <<x[i], y[i], z[i]>> \in S})
                 = IF \E j \in 1 .. Len(trace) : trace[j][1] = c
                     THEN ExpectedCount[c] ELSE 0

C27_Witness ==
  /\ entry = "routing" /\ fn = 230 /\ pc = "done"
  /\ trace[1][1] = 1 /\ trace[2][1] = 3 /\ trace[3][1] = 4
  /\ Cardinality({i \in DOMAIN x : <<x[i], y[i], z[i]>> \in FixedOrbit(2)}) = 0

\* C28: the entries of every gen_oh call form one orbit with one weight: the
\* image of each point under any sign flip or axis permutation is a point of
\* the same call with the same weight; and when a supported rule has returned,
\* every point has its inverse in the rule, with the same weight
C28_Symmetric ==
  /\ (trace # <<>> /\ call.code \in 1 .. 6
         /\ Radicand(call.code, call.a, call.b) >= 0) =>
        \A S \in {Written} :
           /\ S = Orbit(<<x[call.off], y[call.off], z[call.off]>>)
           /\ \A i \in Cells :
                 /\ w[i] = w[call.off]
                 /\ <<0 - x[i], 0 - y[i], 0 - z[i]>> \in S
  /\ (entry = "routing" /\ pc = "done" /\ order \in Supported) =>
        \A P \in {{<<x[i], y[i], z[i], w[i]>> : i \in 0 .. order - 1}} :
           \A i \in 0 .. order - 1 :
              <<0 - x[i], 0 - y[i], 0 - z[i], w[i]>> \in P

C28_Witness ==
  /\ entry = "routing" /\ order = 74 /\ pc = "done"
  /\ w[18][1] < 0 /\ w[25] = w[18]
  /\ <<x[25], y[25], z[25]>> = <<0 - x[18], 0 - y[18], 0 - z[18]>>
  /\ x[18] = One \div 3

\* C29: a second leb_order_routing call on the buffers of the first leaves
\* every entry the first call wrote as it was, at every step, when its order
\* is the same supported order or an unsupported one; with the same order it
\* writes the same entries and returns the same count again, with an
\* unsupported order it writes nothing and returns 0
C29_Idempotent ==
  (first.entry = "routing" /\ entry = "routing" /\ garbage = Same
     /\ (order = first.order \/ order \notin Supported)) =>
        /\ \A i \in DOMAIN first.pts :
              <<x[i], y[i], z[i], w[i]>> = first.pts[i]
        /\ (pc = "done" /\ order = first.order) =>
              /\ ret = first.ret
              /\ Snapshot.pts = first.pts
        /\ (pc = "done" /\ order \notin Supported) =>
              /\ ret = 0
              /\ \A i \in DOMAIN wr : wr[i] = 0

C29_Witness ==
  /\ first.entry = "routing" /\ first.order = 14 /\ first.garbage = 1
  /\ entry = "routing" /\ order = 14 /\ garbage = Same /\ pc = "done"
  /\ ret = 14 /\ wr[13] = 1 /\ x[13] = first.pts[13][1]
  /\ x[13] = 0 - (One \div 3)

C22_Terminates ==
  /\ [](entry = "routing" =>
          /\ order \in Supported => Len(trace) <= Len(Table(order))
          /\ order \notin Supported => (trace = <<>> /\ pc = "done")
          /\ (pc = "done" /\ order \in Supported) =>
                /\ Len(trace) = Len(Table(order))
                /\ \A j \in 1 .. Len(trace) :
                      trace[j][3] = ExpectedCount[trace[j][1]])
  /\ (entry = "routing") ~> (pc = "done")

C22_Witness ==
  /\ entry = "routing" /\ order = 302 /\ pc = "done"
  /\ Len(trace) = 12 /\ k = 13 /\ ret = 302

\* the running call has returned what leb_order_routing returns for its order
\* when it runs alone, and its buffers hold what they hold then
AsAlone ==
  \A id \in {Dispatch(order)} :
     IF id = NoTable
       THEN /\ ret = 0
            /\ \A i \in DOMAIN wr :
                  wr[i] = 0 /\ x[i] = garbage /\ w[i] = <<garbage, 0, 0>>
       ELSE /\ ret = order /\ ~oob
            /\ DOMAIN x = 0 .. order - 1
            /\ Len(trace) = Len(Table(id))
            /\ \A j \in 1 .. Len(trace) :
                  /\ trace[j][1] = Table(id)[j][1]
                  /\ trace[j][2] = IF j = 1 THEN 0
                                   ELSE trace[j - 1][2] + trace[j - 1][3]
                  /\ trace[j][3] = ExpectedCount[trace[j][1]]
                  /\ Holds(trace[j][2], Table(id)[j][1], Local(Table(id), j, 2),
                           Local(Table(id), j, 3), Table(id)[j][4])
            /\ \A i \in DOMAIN wr : wr[i] = 1

\* C21: with a second thread calling leb_order_routing on buffers of its own,
\* under every interleaving of the gen_oh calls of the two threads, each call
\* returns the count and leaves the buffer contents of the same call alone
C21_NoInterference ==
  (other # NoThread /\ entry = "routing" /\ pc = "done") => AsAlone

C21_Witness ==
  /\ other.pc = "ld" /\ other.order = 26 /\ other.k = 2 /\ other.garbage = 1
  /\ entry = "routing" /\ pc = "done" /\ order = 26 /\ garbage = 0
  /\ ret = 26 /\ AsAlone
  /\ DOMAIN other.wr = 0 .. 25 /\ other.wr[5] = 1 /\ other.wr[6] = 0

====
